---- MODULE Spec2Model ----
(***************************************************************************)
(* A model of GoCache: the singleflight coalescer (singleflight.Group.Do),  *)
(* the LRU engine (lru.LRUCache) and the Group read path                    *)
(* (Group.GetCacheData / load / getLocally).                                *)
(***************************************************************************)
EXTENDS Integers, Sequences, FiniteSets, TLC

\* ------------------------------------------------------------------ bounds
NProcs == 3        \* goroutines; all of them call at once in SpecBurst
NCallers == 2      \* the goroutines that call Do in Spec
MaxDo == 3         \* Do invocations over a run of Spec

Procs == 1..(IF NProcs > NCallers THEN NProcs ELSE NCallers)
Callers == 1..NCallers
Keys == {"k1", "k2"}
\* main.go's data source, and the key its callers ask for
Db == [Tom |-> "630", Jack |-> "589", Sam |-> "567"]
GKey == "Sam"
\* the keys g.m may hold
\* a key main.go's data source does not hold
NoKey == "Bob"
\* the keys GetCacheData is called with
GKeys == {GKey, "Tom", NoKey}
MapKeys == Keys \cup GKeys
BurstKey == "k1"
NoProc == 0
NoCall == 0
MaxGets == 3       \* GetCacheData invocations over a run
CallIds == 1..(IF MaxDo > NProcs
               THEN (IF MaxDo > MaxGets THEN MaxDo ELSE MaxGets)
               ELSE (IF NProcs > MaxGets THEN NProcs ELSE MaxGets))
Errs == {"nil", "err"}
\* the zero value of call.val / call.err, and "nothing returned yet"
ZeroRes == <<0, "nil">>
NoRes == <<-1, "none">>

VARIABLES
    \* ---- singleflight.Group and its callers
    sfMu,      \* g.mu: the goroutine holding it, or NoProc
    sfMNil,    \* g.m == nil
    sfM,       \* g.m: key -> call id (NoCall: no entry)
    sfCalls,   \* the call records on the heap: id -> [wg, val, err]
    sfN,       \* number of call records allocated (new(call))
    pc,        \* each goroutine's position in Do
    key,       \* Do's argument key
    c,         \* Do's local c
    inv,       \* fn's own local: the invocation number it counted
    res,       \* what the goroutine's last Do returned
    fnCount,   \* per key: how often fn was invoked (fn counts its invocations)
    nDo,       \* Do invocations so far
    \* ---- history of the run (read by no action's guard or assignment to program state)
    role,      \* "leader" / "waiter" of the current or last Do
    fnOut,     \* call id -> the (value, error) its fn produced
    retd,      \* call id -> its leader has returned
    ckey,      \* call id -> the key it was installed under
    \* ---- lru.LRUCache and its single-threaded caller
    lru,       \* the engine: [maxCapacity, curCapacity, ll, cache]
    now,       \* what c.Now() returns
    ret,       \* the last operation and what it returned
    tick,      \* flips with every engine operation
    evicted,   \* the keys the last operation evicted for capacity, in order
    hung,      \* Add's eviction loop cannot end (over capacity with an empty list)
    \* ---- history of the run
    order,     \* the keys present, most recently touched first
    oldest,    \* per eviction of the last operation: the least recently touched key then
    \* ---- gocache.Group and the callers of GetCacheData
    peers,     \* g.peers: "nil" (none registered) or "self" (PickPeer answers ok = false)
    hotCache,  \* g.hotCache: the shell [isNil, cacheBytes, lru]
    mainCache, \* g.mainCache
    gpc,       \* each caller's position in GetCacheData / load
    gkey,      \* GetCacheData's argument key
    gval,      \* getLocally's local value
    gres,      \* what GetCacheData returned: <<bytes, error>>
    loads,     \* per key: how often the user loader g.getter.Get was invoked
    \* ---- consistenthash.Map and its single-threaded caller
    hmap,      \* the Map: [replicas, ring, hashMap]
    hgot,      \* the last Get: [key, peer]
    hadded,    \* history: the peers passed to Add so far, in order
    \* ---- gocache.Group: the remote path of load (getFromPeer)
    gkeys,     \* g.keys: key -> [present, firstGetTime, remoteCnt]
    gmu,       \* the package's mu: the goroutine holding it, or NoProc
    wall,      \* time.Now().Unix(), in steps of TickSeconds
    gpeer,     \* getFromPeer's res.Value
    kwriters,  \* the goroutines inside a write of g.keys
    kraced,    \* the goroutines whose write of g.keys overlapped another write
    kfault,    \* the runtime stopped the process: "concurrent map writes"
    nGets,     \* GetCacheData invocations so far
    fetches,   \* per key: successful remote fetches (getFromPeer returned a value)
    \* ---- history of the run
    gtier,     \* per goroutine: how its last getFromPeer left the key ("below", "reached")
    peerFailed,\* per goroutine: the peer's Get failed in its current load
    errSeen,   \* per key: a GetCacheData(k) has returned the loader's error
    loads0,    \* per goroutine: loads[k] when its GetCacheData(k) began, if errSeen[k] and
               \* no other GetCacheData(k) was in progress then; else -1
    \* ---- gocache.Server, the callers of Start and Stop, and the goroutines Start spawns
    srvMu,     \* s.mu: the goroutine that locked it, or NoProc
    status,    \* s.status
    stopSignal,\* s.stopSignal: the channel it refers to (NoChan: nil)
    srvPeers,  \* s.peers: "map" or "nil"
    srvClients,\* s.clients: "map" or "nil"
    nChan,     \* channels made so far (make(chan error))
    chClosed,  \* the channels that are closed
    lisOpen,   \* the listeners that are open, by the channel made in the same Start
    spc,       \* each caller's position in Start or Stop
    sgen,      \* Start's local lis and goroutine, by the channel made in the same Start
    sres,      \* what the caller's last Start or Stop returned
    reg,       \* each spawned goroutine's position
    regCh,     \* the channel the goroutine handed to registry.Register
    srvFault,  \* the panic that ended the process, or "none"
    nSrv,      \* Start and Stop invocations so far
    \* ---- history of the run
    sent,      \* per channel: the values sent on it
    \* ---- one gocache.LRUcache (the shell) and the goroutines calling add and get
    shell,     \* the shell: [isNil, cacheBytes, lru]
    shW,       \* c.mu: the goroutine holding the write lock, or NoProc
    shR,       \* c.mu: the goroutines holding the read lock
    shpc,      \* each goroutine's position in add or get
    sharg,     \* the call's arguments: [key, value, expire]
    shnode,    \* Get's locals node and kv: the entry found and the branch taken
    shret,     \* what the goroutine's last get returned: <<bytes, ok>>
    shFault,   \* the runtime ended the process (concurrent map read and map write)
    nShell,    \* add and get invocations so far
    \* ---- history of the run
    mutators,  \* the goroutines that are writing the engine's list, map or byte count
    \* ---- gocache.Server: the peer table, and the callers of Set and PickPeer
    srvMap,    \* *s.peers, the consistenthash.Map (while s.peers is not nil)
    srvCli,    \* the keys of s.clients (while s.clients is not nil)
    sarg,      \* the call's argument: Set's addresses or PickPeer's key
    spick      \* what the caller's last PickPeer returned: [isNil, client, ok]

sfVars == <<sfMu, sfMNil, sfM, sfCalls, sfN, pc, key, c, inv, res, fnCount, nDo,
            role, fnOut, retd, ckey>>

lruVars == <<lru, now, ret, tick, evicted, hung, order, oldest>>

grpVars == <<peers, hotCache, mainCache, gpc, gkey, gval, gres, loads>>

ringVars == <<hmap, hgot, hadded>>

\* everything outside singleflight, the engine and the Group's local read path
remVars == <<gkeys, gmu, wall, gpeer, kwriters, kraced, kfault, nGets,
             fetches, gtier, peerFailed, errSeen, loads0>>

srvVars == <<srvMu, status, stopSignal, srvPeers, srvClients, nChan, chClosed, lisOpen,
             spc, sgen, sres, reg, regCh, srvFault, nSrv, sent>>

shVars == <<shell, shW, shR, shpc, sharg, shnode, shret, shFault, nShell, mutators>>

pickVars == <<srvMap, srvCli, sarg, spick>>

restVars == <<ringVars, remVars, srvVars, shVars, pickVars>>

\* everything outside singleflight and the Group's local read path
outerVars == <<lruVars, restVars>>

nonSfVars == <<lruVars, grpVars, restVars>>
nonLruVars == <<sfVars, grpVars, restVars>>

vars == <<sfVars, lruVars, grpVars, restVars>>

\* --------------------------------------------------------------------- lru
MaxTime == 2       \* the clock runs from 1 to MaxTime

LKeys == {"a", "b", "cc"}
LVals == {"1", "333"}
LCaps == {0, 4, 7}
S1Keys == {"a", "b", "c", "d"}
S1Vals == {"1", "22", "333", "4444"}
\* time.Time{}: the zero instant, "never expires"
ZeroTime == 0
Expiries == 0..MaxTime
NilVal == "nil"

\* lru.New(maxCapacity, nil)
LruNew(maxCapacity) ==
    [maxCapacity |-> maxCapacity, curCapacity |-> 0, ll |-> <<>>, cache |-> {}]

\* int64(len(kv.key)) + int64(kv.value.Len())
EntrySize(kv) == Len(kv.key) + Len(kv.value)

\* the list element c.cache[key] points to: its position in ll, 0 when it is in no list
NodeOf(e, k) ==
    IF \E i \in 1..Len(e.ll) : e.ll[i].key = k
    THEN CHOOSE i \in 1..Len(e.ll) :
             /\ e.ll[i].key = k
             /\ \A j \in 1..(i - 1) : e.ll[j].key # k
    ELSE 0

RemoveAt(s, i) == SubSeq(s, 1, i - 1) \o SubSeq(s, i + 1, Len(s))

\* mutant of MoveToFront: the node stays where it is
MoveToFrontNoMove(s, i) == s

\* c.ll.MoveToFront(node)
MoveToFront(s, i) == IF i = 0 THEN s ELSE <<s[i]>> \o RemoveAt(s, i)

\* mutant of RemoveElement: only the value's length is given back
RemoveElementValueOnly(e, i) ==
    [e EXCEPT !.ll = RemoveAt(e.ll, i),
              !.cache = e.cache \ {e.ll[i].key},
              !.curCapacity = e.curCapacity - Len(e.ll[i].value)]

\* c.removeElement(node), node at position i of the list
RemoveElement(e, i) ==
    [e EXCEPT !.ll = RemoveAt(e.ll, i),
              !.cache = e.cache \ {e.ll[i].key},
              !.curCapacity = e.curCapacity - EntrySize(e.ll[i])]

\* mutant of LruRemoveOldest: the front node is removed
LruRemoveNewest(e) == IF e.ll = <<>> THEN e ELSE RemoveElement(e, 1)

\* c.RemoveOldest(): node := c.ll.Back()
LruRemoveOldest(e) == IF e.ll = <<>> THEN e ELSE RemoveElement(e, Len(e.ll))

\* mutant of EvictLoop: an if in place of the for
EvictOnce(e, out) ==
    IF e.maxCapacity # 0 /\ e.maxCapacity < e.curCapacity /\ e.ll # <<>>
    THEN [e |-> LruRemoveOldest(e), out |-> Append(out, e.ll[Len(e.ll)].key), hung |-> FALSE]
    ELSE [e |-> e, out |-> out, hung |-> FALSE]

\* for c.maxCapacity != 0 && c.maxCapacity < c.curCapacity { c.RemoveOldest() }
RECURSIVE EvictLoop(_, _)
EvictLoop(e, out) ==
    IF e.maxCapacity # 0 /\ e.maxCapacity < e.curCapacity
    THEN IF e.ll = <<>>
         THEN [e |-> e, out |-> out, hung |-> TRUE]
         ELSE EvictLoop(LruRemoveOldest(e), Append(out, e.ll[Len(e.ll)].key))
    ELSE [e |-> e, out |-> out, hung |-> FALSE]

\* mutant of LruInsertOrUpdate: an update adds the new value's length without
\* taking the old one off
LruInsertOrUpdateNoAdjust(e, k, v, x) ==
    IF k \in e.cache
    THEN LET i == NodeOf(e, k)
             l == MoveToFront(e.ll, i)
         IN  [e EXCEPT !.ll = IF i = 0 THEN l
                               ELSE [l EXCEPT ![1] = [key |-> k, value |-> v, expire |-> x]],
                       !.curCapacity = e.curCapacity + Len(v)]
    ELSE [e EXCEPT !.ll = <<[key |-> k, value |-> v, expire |-> x]>> \o e.ll,
                   !.cache = e.cache \cup {k},
                   !.curCapacity = e.curCapacity + Len(k) + Len(v)]

\* Add, before its eviction loop: update in place and move to the front, or push a new node
LruInsertOrUpdate(e, k, v, x) ==
    IF k \in e.cache
    THEN LET i == NodeOf(e, k)
             l == MoveToFront(e.ll, i)
         IN  [e EXCEPT !.ll = IF i = 0 THEN l
                               ELSE [l EXCEPT ![1] = [key |-> k, value |-> v, expire |-> x]],
                       !.curCapacity = IF i = 0 THEN e.curCapacity
                                       ELSE e.curCapacity + Len(v) - Len(e.ll[i].value)]
    ELSE [e EXCEPT !.ll = <<[key |-> k, value |-> v, expire |-> x]>> \o e.ll,
                   !.cache = e.cache \cup {k},
                   !.curCapacity = e.curCapacity + Len(k) + Len(v)]

\* c.Add(key, value, expire)
LruAdd(e, k, v, x) == EvictLoop(LruInsertOrUpdate(e, k, v, x), <<>>)

\* !kv.expire.IsZero() && kv.expire.Before(c.Now())
Expired(kv, t) == kv.expire # ZeroTime /\ kv.expire < t

\* mutant of LruGet: an entry expires at its expiry instant, not after it
LruGetExpireAtInstant(e, k, t) ==
    LET i == NodeOf(e, k)
    IN  IF k \notin e.cache \/ i = 0
        THEN [e |-> e, value |-> NilVal, ok |-> FALSE, did |-> "miss"]
        ELSE IF e.ll[i].expire # ZeroTime /\ e.ll[i].expire <= t
             THEN [e |-> RemoveElement(e, i), value |-> NilVal, ok |-> FALSE, did |-> "expired"]
             ELSE [e |-> [e EXCEPT !.ll = MoveToFront(e.ll, i)],
                   value |-> e.ll[i].value, ok |-> TRUE, did |-> "hit"]

\* c.Get(key) with c.Now() = t; did names the branch taken
LruGet(e, k, t) ==
    LET i == NodeOf(e, k)
    IN  IF k \notin e.cache \/ i = 0
        THEN [e |-> e, value |-> NilVal, ok |-> FALSE, did |-> "miss"]
        ELSE IF Expired(e.ll[i], t)
             THEN [e |-> RemoveElement(e, i), value |-> NilVal, ok |-> FALSE, did |-> "expired"]
             ELSE [e |-> [e EXCEPT !.ll = MoveToFront(e.ll, i)],
                   value |-> e.ll[i].value, ok |-> TRUE, did |-> "hit"]

\* ---- the engine's caller: one operation at a time
NoRet == [op |-> "none", key |-> "", value |-> NilVal, expire |-> ZeroTime,
          ok |-> FALSE, did |-> "none"]

\* last-touch order kept beside the engine
Touch(o, k) == <<k>> \o SelectSeq(o, LAMBDA x : x # k)
Without(o, ks) == SelectSeq(o, LAMBDA x : x \notin ks)
Range(sq) == {sq[i] : i \in 1..Len(sq)}
OldestOf(o, n) == [i \in 1..n |-> IF i <= Len(o) THEN o[Len(o) - i + 1] ELSE ""]

LruIdle ==
    /\ lru = LruNew(0)
    /\ now = 1
    /\ ret = NoRet
    /\ tick = 0
    /\ evicted = <<>>
    /\ hung = FALSE
    /\ order = <<>>
    /\ oldest = <<>>

AddOp(k, v, x) ==
    /\ ~hung
    /\ LET r == LruAdd(lru, k, v, x)
           o == Touch(order, k)
       IN  /\ lru' = r.e
           /\ hung' = r.hung
           /\ evicted' = r.out
           /\ oldest' = OldestOf(o, Len(r.out))
           /\ order' = Without(o, Range(r.out))
    /\ ret' = [op |-> "Add", key |-> k, value |-> v, expire |-> x, ok |-> TRUE,
               did |-> IF k \in lru.cache THEN "update" ELSE "insert"]
    /\ tick' = 1 - tick
    /\ UNCHANGED now
    /\ UNCHANGED nonLruVars

GetOp(k) ==
    /\ ~hung
    /\ LET r == LruGet(lru, k, now)
       IN  /\ lru' = r.e
           /\ ret' = [op |-> "Get", key |-> k, value |-> r.value, expire |-> ZeroTime,
                      ok |-> r.ok, did |-> r.did]
           /\ order' = IF r.ok THEN Touch(order, k)
                       ELSE IF r.did = "expired" THEN Without(order, {k}) ELSE order
    /\ evicted' = <<>>
    /\ oldest' = <<>>
    /\ tick' = 1 - tick
    /\ UNCHANGED <<now, hung>>
    /\ UNCHANGED nonLruVars

RemoveOldestOp ==
    /\ ~hung
    /\ lru' = LruRemoveOldest(lru)
    /\ evicted' = IF lru.ll = <<>> THEN <<>> ELSE <<lru.ll[Len(lru.ll)].key>>
    /\ oldest' = IF order = <<>> THEN <<>> ELSE <<order[Len(order)]>>
    /\ order' = IF lru.ll = <<>> THEN order ELSE Without(order, {lru.ll[Len(lru.ll)].key})
    /\ ret' = [NoRet EXCEPT !.op = "RemoveOldest"]
    /\ tick' = 1 - tick
    /\ UNCHANGED <<now, hung>>
    /\ UNCHANGED nonLruVars

\* the injected clock c.Now advances
ClockTick ==
    /\ now < MaxTime
    /\ now' = now + 1
    /\ UNCHANGED <<lru, ret, tick, evicted, hung, order, oldest>>
    /\ UNCHANGED nonLruVars

\* ------------------------------------------------------------ singleflight
NewCall == [wg |-> 0, val |-> 0, err |-> "nil"]

SfInitCommon ==
    /\ sfMu = NoProc
    /\ sfMNil = TRUE
    /\ sfM = [k \in MapKeys |-> NoCall]
    /\ sfCalls = [i \in CallIds |-> NewCall]
    /\ sfN = 0
    /\ c = [p \in Procs |-> NoCall]
    /\ inv = [p \in Procs |-> 0]
    /\ res = [p \in Procs |-> NoRes]
    /\ fnCount = [k \in MapKeys |-> 0]
    /\ role = [p \in Procs |-> "none"]
    /\ fnOut = [i \in CallIds |-> NoRes]
    /\ retd = [i \in CallIds |-> FALSE]
    /\ ckey = [i \in CallIds |-> ""]

SfIdle ==
    /\ SfInitCommon
    /\ pc = [p \in Procs |-> "idle"]
    /\ key = [p \in Procs |-> BurstKey]
    /\ nDo = 0

\* a caller invokes g.Do(k, fn)
DoCall(p, k) ==
    /\ pc[p] = "idle"
    /\ nDo < MaxDo
    /\ pc' = [pc EXCEPT ![p] = "start"]
    /\ key' = [key EXCEPT ![p] = k]
    /\ c' = [c EXCEPT ![p] = NoCall]
    /\ res' = [res EXCEPT ![p] = NoRes]
    /\ role' = [role EXCEPT ![p] = "none"]
    /\ nDo' = nDo + 1
    /\ UNCHANGED <<sfMu, sfMNil, sfM, sfCalls, sfN, inv, fnCount, fnOut, retd, ckey>>
    /\ UNCHANGED nonSfVars

\* g.mu.Lock()
DoLock(p) ==
    /\ pc[p] = "start"
    /\ sfMu = NoProc
    /\ sfMu' = p
    /\ pc' = [pc EXCEPT ![p] = "check"]
    /\ UNCHANGED <<sfMNil, sfM, sfCalls, sfN, key, c, inv, res, fnCount, nDo,
                   role, fnOut, retd, ckey>>
    /\ UNCHANGED nonSfVars

\* mutant of DoCheck: the record found in the map is ignored
DoCheckAlwaysLeader(p) ==
    /\ pc[p] = "check"
    /\ sfMu = p
    /\ sfMNil' = FALSE
    /\ sfN' = sfN + 1
    /\ sfCalls' = [sfCalls EXCEPT ![sfN + 1] = [NewCall EXCEPT !.wg = 1]]
    /\ sfM' = [sfM EXCEPT ![key[p]] = sfN + 1]
    /\ c' = [c EXCEPT ![p] = sfN + 1]
    /\ ckey' = [ckey EXCEPT ![sfN + 1] = key[p]]
    /\ role' = [role EXCEPT ![p] = "leader"]
    /\ pc' = [pc EXCEPT ![p] = "fn"]
    /\ sfMu' = NoProc
    /\ UNCHANGED <<key, inv, res, fnCount, nDo, fnOut, retd>>
    /\ UNCHANGED nonSfVars

\* the lookup under the lock: wait on the record found, or install a new one
DoCheck(p) ==
    /\ pc[p] = "check"
    /\ sfMu = p
    /\ sfMNil' = FALSE
    /\ IF sfM[key[p]] # NoCall
       THEN /\ c' = [c EXCEPT ![p] = sfM[key[p]]]
            /\ role' = [role EXCEPT ![p] = "waiter"]
            /\ pc' = [pc EXCEPT ![p] = "wait"]
            /\ UNCHANGED <<sfM, sfCalls, sfN, ckey>>
       ELSE /\ sfN' = sfN + 1
            /\ sfCalls' = [sfCalls EXCEPT ![sfN + 1] = [NewCall EXCEPT !.wg = 1]]
            /\ sfM' = [sfM EXCEPT ![key[p]] = sfN + 1]
            /\ c' = [c EXCEPT ![p] = sfN + 1]
            /\ ckey' = [ckey EXCEPT ![sfN + 1] = key[p]]
            /\ role' = [role EXCEPT ![p] = "leader"]
            /\ pc' = [pc EXCEPT ![p] = "fn"]
    /\ sfMu' = NoProc
    /\ UNCHANGED <<key, inv, res, fnCount, nDo, fnOut, retd>>
    /\ UNCHANGED nonSfVars

\* mutant of DoWait: the waiter does not block on the wait group
DoWaitNoBlock(p) ==
    /\ pc[p] = "wait"
    /\ pc' = [pc EXCEPT ![p] = "wret"]
    /\ UNCHANGED <<sfMu, sfMNil, sfM, sfCalls, sfN, key, c, inv, res, fnCount, nDo,
                   role, fnOut, retd, ckey>>
    /\ UNCHANGED nonSfVars

\* c.wg.Wait() returns once the counter is zero
DoWait(p) ==
    /\ pc[p] = "wait"
    /\ sfCalls[c[p]].wg = 0
    /\ pc' = [pc EXCEPT ![p] = "wret"]
    /\ UNCHANGED <<sfMu, sfMNil, sfM, sfCalls, sfN, key, c, inv, res, fnCount, nDo,
                   role, fnOut, retd, ckey>>
    /\ UNCHANGED nonSfVars

\* mutant of DoWaitReturn: the waiter, too, removes the key from the map
DoWaitReturnDeletes(p) ==
    /\ pc[p] = "wret"
    /\ res' = [res EXCEPT ![p] = <<sfCalls[c[p]].val, sfCalls[c[p]].err>>]
    /\ sfM' = [sfM EXCEPT ![key[p]] = NoCall]
    /\ pc' = [pc EXCEPT ![p] = "idle"]
    /\ UNCHANGED <<sfMu, sfMNil, sfCalls, sfN, key, c, inv, fnCount, nDo,
                   role, fnOut, retd, ckey>>
    /\ UNCHANGED nonSfVars

\* the waiter's return c.val, c.err
DoWaitReturn(p) ==
    /\ pc[p] = "wret"
    /\ res' = [res EXCEPT ![p] = <<sfCalls[c[p]].val, sfCalls[c[p]].err>>]
    /\ pc' = [pc EXCEPT ![p] = "idle"]
    /\ UNCHANGED <<sfMu, sfMNil, sfM, sfCalls, sfN, key, c, inv, fnCount, nDo,
                   role, fnOut, retd, ckey>>
    /\ UNCHANGED nonSfVars

\* the leader enters fn, which counts the invocation
FnBegin(p) ==
    /\ pc[p] = "fn"
    /\ fnCount' = [fnCount EXCEPT ![key[p]] = @ + 1]
    /\ inv' = [inv EXCEPT ![p] = fnCount[key[p]] + 1]
    /\ pc' = [pc EXCEPT ![p] = "running"]
    /\ UNCHANGED <<sfMu, sfMNil, sfM, sfCalls, sfN, key, c, res, nDo,
                   role, fnOut, retd, ckey>>
    /\ UNCHANGED nonSfVars

\* mutant of FnEnd: fn's error is dropped instead of stored in the record
FnEndDropErr(p, e) ==
    /\ pc[p] = "running"
    /\ sfCalls' = [sfCalls EXCEPT ![c[p]].val = inv[p]]
    /\ fnOut' = [fnOut EXCEPT ![c[p]] = <<inv[p], e>>]
    /\ pc' = [pc EXCEPT ![p] = "done"]
    /\ UNCHANGED <<sfMu, sfMNil, sfM, sfN, key, c, inv, res, fnCount, nDo,
                   role, retd, ckey>>
    /\ UNCHANGED nonSfVars

\* fn returns (its count, e); c.val, c.err = fn()
FnEnd(p, e) ==
    /\ pc[p] = "running"
    /\ sfCalls' = [sfCalls EXCEPT ![c[p]].val = inv[p], ![c[p]].err = e]
    /\ fnOut' = [fnOut EXCEPT ![c[p]] = <<inv[p], e>>]
    /\ pc' = [pc EXCEPT ![p] = "done"]
    /\ UNCHANGED <<sfMu, sfMNil, sfM, sfN, key, c, inv, res, fnCount, nDo,
                   role, retd, ckey>>
    /\ UNCHANGED nonSfVars

\* c.wg.Done()
DoDone(p) ==
    /\ pc[p] = "done"
    /\ sfCalls' = [sfCalls EXCEPT ![c[p]].wg = 0]
    /\ pc' = [pc EXCEPT ![p] = "relock"]
    /\ UNCHANGED <<sfMu, sfMNil, sfM, sfN, key, c, inv, res, fnCount, nDo,
                   role, fnOut, retd, ckey>>
    /\ UNCHANGED nonSfVars

\* the second g.mu.Lock()
DoRelock(p) ==
    /\ pc[p] = "relock"
    /\ sfMu = NoProc
    /\ sfMu' = p
    /\ pc' = [pc EXCEPT ![p] = "delete"]
    /\ UNCHANGED <<sfMNil, sfM, sfCalls, sfN, key, c, inv, res, fnCount, nDo,
                   role, fnOut, retd, ckey>>
    /\ UNCHANGED nonSfVars

\* mutant of DoDelete: the record stays in the map
DoDeleteSkip(p) ==
    /\ pc[p] = "delete"
    /\ sfMu = p
    /\ sfMu' = NoProc
    /\ pc' = [pc EXCEPT ![p] = "ret"]
    /\ UNCHANGED <<sfMNil, sfM, sfCalls, sfN, key, c, inv, res, fnCount, nDo,
                   role, fnOut, retd, ckey>>
    /\ UNCHANGED nonSfVars

\* delete(g.m, key); g.mu.Unlock()
DoDelete(p) ==
    /\ pc[p] = "delete"
    /\ sfMu = p
    /\ sfM' = [sfM EXCEPT ![key[p]] = NoCall]
    /\ sfMu' = NoProc
    /\ pc' = [pc EXCEPT ![p] = "ret"]
    /\ UNCHANGED <<sfMNil, sfCalls, sfN, key, c, inv, res, fnCount, nDo,
                   role, fnOut, retd, ckey>>
    /\ UNCHANGED nonSfVars

\* the leader's return c.val, c.err
DoReturn(p) ==
    /\ pc[p] = "ret"
    /\ res' = [res EXCEPT ![p] = <<sfCalls[c[p]].val, sfCalls[c[p]].err>>]
    /\ retd' = [retd EXCEPT ![c[p]] = TRUE]
    /\ pc' = [pc EXCEPT ![p] = "idle"]
    /\ UNCHANGED <<sfMu, sfMNil, sfM, sfCalls, sfN, key, c, inv, fnCount, nDo,
                   role, fnOut, ckey>>
    /\ UNCHANGED nonSfVars

\* one step of a Do in progress
DoStep(p) ==
    \/ DoLock(p)
    \/ DoCheck(p)
    \/ DoWait(p)
    \/ DoWaitReturn(p)
    \/ FnBegin(p)
    \/ \E e \in Errs : FnEnd(p, e)
    \/ DoDone(p)
    \/ DoRelock(p)
    \/ DoDelete(p)
    \/ DoReturn(p)

\* ------------------------------------------------------------------- group
\* main.go: NewGroup("scores", 2<<10, "lru", ...)
CacheBytes == 2048
\* ByteView{}.b, and GetCacheData's "nothing returned yet"
NoBytes == ""
NoGres == <<"", "none">>

\* &LRUcache{cacheBytes: cacheBytes}: the engine is built on the first add
NewShell(cacheBytes) == [isNil |-> TRUE, cacheBytes |-> cacheBytes, lru |-> LruNew(cacheBytes)]

\* (*LRUcache).get, as one step of the Group's read path (the shell's own steps and its
\* lock are in the section on the shell below)
ShellGet(sh, k, t) ==
    IF sh.isNil
    THEN [sh |-> sh, value |-> NoBytes, ok |-> FALSE]
    ELSE LET r == LruGet(sh.lru, k, t)
         IN  [sh |-> [sh EXCEPT !.lru = r.e],
              value |-> IF r.ok THEN r.value ELSE NoBytes, ok |-> r.ok]

\* (*LRUcache).add under c.mu.Lock(): c.lru.Add(key, value, value.Expire()), and the
\* ByteView getLocally builds has the zero expiry
ShellAdd(sh, k, v) ==
    LET e == IF sh.isNil THEN LruNew(sh.cacheBytes) ELSE sh.lru
    IN  [sh EXCEPT !.isNil = FALSE, !.lru = LruAdd(e, k, v, ZeroTime).e]

GrpIdle ==
    /\ peers = "nil"
    /\ hotCache = NewShell(CacheBytes)
    /\ mainCache = NewShell(CacheBytes)
    /\ gpc = [p \in Procs |-> "none"]
    /\ gkey = [p \in Procs |-> ""]
    /\ gval = [p \in Procs |-> NoBytes]
    /\ gres = [p \in Procs |-> NoGres]
    /\ loads = [k \in GKeys |-> 0]

\* if v, ok := g.hotCache.get(key); ok { return v, nil }
GetHot(p) ==
    /\ gpc[p] = "hot"
    /\ gkey[p] # ""
    /\ LET r == ShellGet(hotCache, gkey[p], now)
       IN  /\ hotCache' = r.sh
           /\ IF r.ok
              THEN /\ gres' = [gres EXCEPT ![p] = <<r.value, "nil">>]
                   /\ gpc' = [gpc EXCEPT ![p] = "done"]
              ELSE /\ gpc' = [gpc EXCEPT ![p] = "main"]
                   /\ UNCHANGED gres
    /\ UNCHANGED <<peers, mainCache, gkey, gval, loads>>
    /\ UNCHANGED <<sfVars, outerVars>>

\* if v, ok := g.mainCache.get(key); ok { return v, nil }
GetMain(p) ==
    /\ gpc[p] = "main"
    /\ LET r == ShellGet(mainCache, gkey[p], now)
       IN  /\ mainCache' = r.sh
           /\ IF r.ok
              THEN /\ gres' = [gres EXCEPT ![p] = <<r.value, "nil">>]
                   /\ gpc' = [gpc EXCEPT ![p] = "done"]
              ELSE /\ gpc' = [gpc EXCEPT ![p] = "load"]
                   /\ UNCHANGED gres
    /\ UNCHANGED <<peers, hotCache, gkey, gval, loads>>
    /\ UNCHANGED <<sfVars, outerVars>>

\* load: g.loader.Do(key, func() ...) is entered
LoadCall(p) ==
    /\ gpc[p] = "load"
    /\ pc[p] = "idle"
    /\ pc' = [pc EXCEPT ![p] = "start"]
    /\ key' = [key EXCEPT ![p] = gkey[p]]
    /\ c' = [c EXCEPT ![p] = NoCall]
    /\ res' = [res EXCEPT ![p] = NoRes]
    /\ role' = [role EXCEPT ![p] = "none"]
    /\ gpc' = [gpc EXCEPT ![p] = "inDo"]
    /\ UNCHANGED <<sfMu, sfMNil, sfM, sfCalls, sfN, inv, fnCount, nDo, fnOut, retd, ckey>>
    /\ UNCHANGED <<peers, hotCache, mainCache, gkey, gval, gres, loads>>
    /\ UNCHANGED outerVars

\* the closure starts: no picker is registered, or PickPeer(key) answers ok = false
\* (the key's owner is this node); either way it goes on to getLocally
ClosurePick(p) ==
    /\ gpc[p] = "inDo"
    /\ pc[p] = "fn"
    /\ peers \in {"nil", "self"}
    /\ pc' = [pc EXCEPT ![p] = "getter"]
    /\ UNCHANGED <<sfMu, sfMNil, sfM, sfCalls, sfN, key, c, inv, res, fnCount, nDo,
                   role, fnOut, retd, ckey>>
    /\ UNCHANGED <<grpVars, outerVars>>

\* getLocally: bytes, err := g.getter.Get(key); an error ends the closure
GetterCall(p) ==
    /\ pc[p] = "getter"
    /\ loads' = [loads EXCEPT ![key[p]] = @ + 1]
    /\ IF key[p] \in DOMAIN Db
       THEN /\ gval' = [gval EXCEPT ![p] = Db[key[p]]]
            /\ pc' = [pc EXCEPT ![p] = "popMain"]
            /\ UNCHANGED <<sfCalls, fnOut>>
       ELSE /\ sfCalls' = [sfCalls EXCEPT ![c[p]].val = NoBytes, ![c[p]].err = "err"]
            /\ fnOut' = [fnOut EXCEPT ![c[p]] = <<NoBytes, "err">>]
            /\ pc' = [pc EXCEPT ![p] = "done"]
            /\ UNCHANGED gval
    /\ UNCHANGED <<sfMu, sfMNil, sfM, sfN, key, c, inv, res, fnCount, nDo, role, retd, ckey>>
    /\ UNCHANGED <<peers, hotCache, mainCache, gpc, gkey, gres>>
    /\ UNCHANGED outerVars

\* g.populateCache(key, value)
PopulateMain(p) ==
    /\ pc[p] = "popMain"
    /\ mainCache' = ShellAdd(mainCache, key[p], gval[p])
    /\ pc' = [pc EXCEPT ![p] = "popHot"]
    /\ UNCHANGED <<sfMu, sfMNil, sfM, sfCalls, sfN, key, c, inv, res, fnCount, nDo,
                   role, fnOut, retd, ckey>>
    /\ UNCHANGED <<peers, hotCache, gpc, gkey, gval, gres, loads>>
    /\ UNCHANGED outerVars

\* g.populateHotCache(key, value); return value, nil; c.val, c.err = fn()
PopulateHot(p) ==
    /\ pc[p] = "popHot"
    /\ hotCache' = ShellAdd(hotCache, key[p], gval[p])
    /\ sfCalls' = [sfCalls EXCEPT ![c[p]].val = gval[p], ![c[p]].err = "nil"]
    /\ fnOut' = [fnOut EXCEPT ![c[p]] = <<gval[p], "nil">>]
    /\ pc' = [pc EXCEPT ![p] = "done"]
    /\ UNCHANGED <<sfMu, sfMNil, sfM, sfN, key, c, inv, res, fnCount, nDo, role, retd, ckey>>
    /\ UNCHANGED <<peers, mainCache, gpc, gkey, gval, gres, loads>>
    /\ UNCHANGED outerVars

\* load after Do returned: if err == nil { return viewi.(ByteView), nil }; return
LoadReturn(p) ==
    /\ gpc[p] = "inDo"
    /\ pc[p] = "idle"
    /\ res[p][2] # "none"
    /\ gres' = [gres EXCEPT ![p] = IF res[p][2] = "nil" THEN res[p] ELSE <<NoBytes, res[p][2]>>]
    /\ gpc' = [gpc EXCEPT ![p] = "done"]
    /\ UNCHANGED <<peers, hotCache, mainCache, gkey, gval, loads>>
    /\ UNCHANGED <<sfVars, outerVars>>

\* the steps of Do that GetCacheData's callers take; fn is the closure above
LoaderStep(p) ==
    \/ DoLock(p)
    \/ DoCheck(p)
    \/ DoWait(p)
    \/ DoWaitReturn(p)
    \/ DoDone(p)
    \/ DoRelock(p)
    \/ DoDelete(p)
    \/ DoReturn(p)

\* ------------------------------------------------- group: the remote path
maxMinuteRemoteQPS == 10
MaxWall == 3       \* the wall clock runs from 0 to MaxWall steps
MaxFetches == 11   \* successful remote fetches of a key by direct calls of getFromPeer
\* one step of the wall clock, in seconds
TickSeconds == 30

NoStat == [present |-> FALSE, firstGetTime |-> 0, remoteCnt |-> 0]

\* every singleflight variable but pc, and but pc, sfCalls and fnOut
sfButPc == <<sfMu, sfMNil, sfM, sfCalls, sfN, key, c, inv, res, fnCount, nDo,
             role, fnOut, retd, ckey>>
sfButRecord == <<sfMu, sfMNil, sfM, sfN, key, c, inv, res, fnCount, nDo, role, retd, ckey>>

RemIdle ==
    /\ gkeys = [k \in GKeys |-> NoStat]
    /\ gmu = NoProc
    /\ wall = 0
    /\ gpeer = [p \in Procs |-> NoBytes]
    /\ kwriters = {}
    /\ kraced = {}
    /\ kfault = FALSE
    /\ nGets = 0
    /\ fetches = [k \in GKeys |-> 0]
    /\ gtier = [p \in Procs |-> "none"]
    /\ peerFailed = [p \in Procs |-> FALSE]
    /\ errSeen = [k \in GKeys |-> FALSE]
    /\ loads0 = [p \in Procs |-> -1]

InHot(k) == ~hotCache.isNil /\ k \in hotCache.lru.cache
InMain(k) == ~mainCache.isNil /\ k \in mainCache.lru.cache

\* a caller invokes g.GetCacheData(k)
GetCall(p, k) ==
    /\ gpc[p] \in {"none", "done"}
    /\ pc[p] = "idle"
    /\ nGets < MaxGets
    /\ nGets' = nGets + 1
    /\ gpc' = [gpc EXCEPT ![p] = "hot"]
    /\ gkey' = [gkey EXCEPT ![p] = k]
    /\ gres' = [gres EXCEPT ![p] = NoGres]
    /\ gval' = [gval EXCEPT ![p] = NoBytes]
    /\ gpeer' = [gpeer EXCEPT ![p] = NoBytes]
    /\ gtier' = [gtier EXCEPT ![p] = "none"]
    /\ peerFailed' = [peerFailed EXCEPT ![p] = FALSE]
    /\ loads0' = [loads0 EXCEPT ![p] =
                      IF errSeen[k] /\ \A q \in Procs \ {p} :
                                          gpc[q] \in {"none", "done"} \/ gkey[q] # k
                      THEN loads[k] ELSE -1]
    /\ UNCHANGED <<peers, hotCache, mainCache, loads>>
    /\ UNCHANGED <<gkeys, gmu, wall, kwriters, kraced, kfault, fetches, errSeen>>
    /\ UNCHANGED <<sfVars, lruVars, ringVars, srvVars, shVars, pickVars>>

\* a caller inside the package invokes g.getFromPeer(peer, k) itself
FetchCall(p, k) ==
    /\ gpc[p] \in {"none", "done"}
    /\ pc[p] = "idle"
    /\ fetches[k] < MaxFetches
    /\ gpc' = [gpc EXCEPT ![p] = "direct"]
    /\ gkey' = [gkey EXCEPT ![p] = k]
    /\ gres' = [gres EXCEPT ![p] = NoGres]
    /\ gval' = [gval EXCEPT ![p] = NoBytes]
    /\ gpeer' = [gpeer EXCEPT ![p] = NoBytes]
    /\ gtier' = [gtier EXCEPT ![p] = "none"]
    /\ peerFailed' = [peerFailed EXCEPT ![p] = FALSE]
    /\ loads0' = [loads0 EXCEPT ![p] = -1]
    /\ pc' = [pc EXCEPT ![p] = "peerGet"]
    /\ c' = [c EXCEPT ![p] = NoCall]
    /\ key' = [key EXCEPT ![p] = k]
    /\ UNCHANGED <<sfMu, sfMNil, sfM, sfCalls, sfN, inv, res, fnCount, nDo, role, fnOut,
                   retd, ckey>>
    /\ UNCHANGED <<peers, hotCache, mainCache, loads>>
    /\ UNCHANGED <<gkeys, gmu, wall, kwriters, kraced, kfault, nGets, fetches, errSeen>>
    /\ UNCHANGED <<lruVars, ringVars, srvVars, shVars, pickVars>>

\* the closure starts: g.peers.PickPeer(key) answers (peer, true)
ClosurePickRemote(p) ==
    /\ gpc[p] = "inDo"
    /\ pc[p] = "fn"
    /\ peers = "remote"
    /\ pc' = [pc EXCEPT ![p] = "peerGet"]
    /\ UNCHANGED sfButPc
    /\ UNCHANGED <<grpVars, lruVars, restVars>>

\* variant of PeerGet with a fault: the closure returns the peer's error
PeerGetReturnsErr(p, ok) ==
    /\ pc[p] = "peerGet"
    /\ IF ok /\ gkey[p] \in DOMAIN Db
       THEN /\ gpeer' = [gpeer EXCEPT ![p] = Db[gkey[p]]]
            /\ pc' = [pc EXCEPT ![p] = "stat"]
            /\ UNCHANGED <<gres, gpc, peerFailed, sfCalls, fnOut>>
       ELSE /\ IF gpc[p] = "direct"
               THEN /\ gres' = [gres EXCEPT ![p] = <<NoBytes, "peerErr">>]
                    /\ gpc' = [gpc EXCEPT ![p] = "done"]
                    /\ pc' = [pc EXCEPT ![p] = "idle"]
                    /\ UNCHANGED <<peerFailed, sfCalls, fnOut>>
               ELSE /\ peerFailed' = [peerFailed EXCEPT ![p] = TRUE]
                    /\ sfCalls' = [sfCalls EXCEPT ![c[p]].val = NoBytes, ![c[p]].err = "peerErr"]
                    /\ fnOut' = [fnOut EXCEPT ![c[p]] = <<NoBytes, "peerErr">>]
                    /\ pc' = [pc EXCEPT ![p] = "done"]
                    /\ UNCHANGED <<gres, gpc>>
            /\ UNCHANGED gpeer
    /\ UNCHANGED sfButRecord
    /\ UNCHANGED <<peers, hotCache, mainCache, gkey, gval, loads>>
    /\ UNCHANGED <<gkeys, gmu, wall, kwriters, kraced, kfault, nGets, fetches, gtier,
                   errSeen, loads0>>
    /\ UNCHANGED <<lruVars, ringVars, srvVars, shVars, pickVars>>

\* getFromPeer: err := peer.Get(req, res). The peer answers with its value for the key,
\* or the call fails (no such key at the peer, dial, deadline, decoding); on failure
\* getFromPeer returns the error and the closure goes on to getLocally
PeerGet(p, ok) ==
    /\ pc[p] = "peerGet"
    /\ IF ok /\ gkey[p] \in DOMAIN Db
       THEN /\ gpeer' = [gpeer EXCEPT ![p] = Db[gkey[p]]]
            /\ pc' = [pc EXCEPT ![p] = "stat"]
            /\ UNCHANGED <<gres, gpc, peerFailed>>
       ELSE /\ IF gpc[p] = "direct"
               THEN /\ gres' = [gres EXCEPT ![p] = <<NoBytes, "peerErr">>]
                    /\ gpc' = [gpc EXCEPT ![p] = "done"]
                    /\ pc' = [pc EXCEPT ![p] = "idle"]
                    /\ UNCHANGED peerFailed
               ELSE /\ peerFailed' = [peerFailed EXCEPT ![p] = TRUE]
                    /\ pc' = [pc EXCEPT ![p] = "getter"]
                    /\ UNCHANGED <<gres, gpc>>
            /\ UNCHANGED gpeer
    /\ UNCHANGED sfButPc
    /\ UNCHANGED <<peers, hotCache, mainCache, gkey, gval, loads>>
    /\ UNCHANGED <<gkeys, gmu, wall, kwriters, kraced, kfault, nGets, fetches, gtier,
                   errSeen, loads0>>
    /\ UNCHANGED <<lruVars, ringVars, srvVars, shVars, pickVars>>

\* stat, ok := g.keys[key]
StatLookup(p) ==
    /\ pc[p] = "stat"
    /\ pc' = [pc EXCEPT ![p] = IF gkeys[gkey[p]].present THEN "count" ELSE "create"]
    /\ UNCHANGED sfButPc
    /\ UNCHANGED <<grpVars, lruVars, restVars>>

\* math.Round(float64(d) / 60) for d >= 0 seconds: halves round away from zero
RoundMinutes(d) == (d + 30) \div 60

\* int64(math.Max(1, x))
AtLeastOne(x) == IF x > 1 THEN x ELSE 1

\* qps as computed for key k after the increment
QpsOf(st, t) ==
    st.remoteCnt \div AtLeastOne(RoundMinutes((t - st.firstGetTime) * TickSeconds))

\* variant of StatCount with a fault: promotion only above the threshold
StatCountAbove(p) ==
    /\ pc[p] = "count"
    /\ LET st == [gkeys[gkey[p]] EXCEPT !.remoteCnt = @ + 1]
       IN  /\ gkeys' = [gkeys EXCEPT ![gkey[p]] = st]
           /\ IF QpsOf(st, wall) > maxMinuteRemoteQPS
              THEN /\ pc' = [pc EXCEPT ![p] = "promote"]
                   /\ gtier' = [gtier EXCEPT ![p] = "reached"]
              ELSE /\ pc' = [pc EXCEPT ![p] = "peerRet"]
                   /\ gtier' = [gtier EXCEPT ![p] = "below"]
    /\ UNCHANGED sfButPc
    /\ UNCHANGED <<gmu, wall, gpeer, kwriters, kraced, kfault, nGets, fetches, peerFailed,
                   errSeen, loads0>>
    /\ UNCHANGED <<grpVars, lruVars, ringVars, srvVars, shVars, pickVars>>

\* stat.remoteCnt.Add(1); interval, qps; if qps >= int64(maxMinuteRemoteQPS)
\* (singleflight lets one fn per key run at a time, so no one else holds this stat)
StatCount(p) ==
    /\ pc[p] = "count"
    /\ LET st == [gkeys[gkey[p]] EXCEPT !.remoteCnt = @ + 1]
       IN  /\ gkeys' = [gkeys EXCEPT ![gkey[p]] = st]
           /\ IF QpsOf(st, wall) >= maxMinuteRemoteQPS
              THEN /\ pc' = [pc EXCEPT ![p] = "promote"]
                   /\ gtier' = [gtier EXCEPT ![p] = "reached"]
              ELSE /\ pc' = [pc EXCEPT ![p] = "peerRet"]
                   /\ gtier' = [gtier EXCEPT ![p] = "below"]
    /\ UNCHANGED sfButPc
    /\ UNCHANGED <<gmu, wall, gpeer, kwriters, kraced, kfault, nGets, fetches, peerFailed,
                   errSeen, loads0>>
    /\ UNCHANGED <<grpVars, lruVars, ringVars, srvVars, shVars, pickVars>>

\* variant of PromoteHot with a fault: the value goes to the main cache as well
PromoteHotAndMain(p) ==
    /\ pc[p] = "promote"
    /\ hotCache' = ShellAdd(hotCache, gkey[p], gpeer[p])
    /\ mainCache' = ShellAdd(mainCache, gkey[p], gpeer[p])
    /\ pc' = [pc EXCEPT ![p] = "muLock"]
    /\ UNCHANGED sfButPc
    /\ UNCHANGED <<peers, gpc, gkey, gval, gres, loads>>
    /\ UNCHANGED <<lruVars, restVars>>

\* g.populateHotCache(key, ByteView{b: res.Value})
PromoteHot(p) ==
    /\ pc[p] = "promote"
    /\ hotCache' = ShellAdd(hotCache, gkey[p], gpeer[p])
    /\ pc' = [pc EXCEPT ![p] = "muLock"]
    /\ UNCHANGED sfButPc
    /\ UNCHANGED <<peers, mainCache, gpc, gkey, gval, gres, loads>>
    /\ UNCHANGED <<lruVars, restVars>>

\* mu.Lock()
MuLock(p) ==
    /\ pc[p] = "muLock"
    /\ gmu = NoProc
    /\ gmu' = p
    /\ pc' = [pc EXCEPT ![p] = "del"]
    /\ UNCHANGED sfButPc
    /\ UNCHANGED <<gkeys, wall, gpeer, kwriters, kraced, kfault, nGets, fetches, gtier,
                   peerFailed, errSeen, loads0>>
    /\ UNCHANGED <<grpVars, lruVars, ringVars, srvVars, shVars, pickVars>>

\* a write of g.keys begins: a write already in progress makes both of them raced
WriteBegin(p) ==
    /\ kwriters' = kwriters \cup {p}
    /\ kraced' = IF kwriters # {} THEN kraced \cup kwriters \cup {p} ELSE kraced

\* delete(g.keys, key) begins
KeyDelete(p) ==
    /\ pc[p] = "del"
    /\ WriteBegin(p)
    /\ pc' = [pc EXCEPT ![p] = "delEnd"]
    /\ UNCHANGED sfButPc
    /\ UNCHANGED <<gkeys, gmu, wall, gpeer, kfault, nGets, fetches, gtier, peerFailed,
                   errSeen, loads0>>
    /\ UNCHANGED <<grpVars, lruVars, ringVars, srvVars, shVars, pickVars>>

\* delete(g.keys, key) ends; a raced write may be lost
KeyDeleteEnd(p, lands) ==
    /\ pc[p] = "delEnd"
    /\ lands \/ p \in kraced
    /\ gkeys' = IF lands THEN [gkeys EXCEPT ![gkey[p]] = NoStat] ELSE gkeys
    /\ kwriters' = kwriters \ {p}
    /\ kraced' = kraced \ {p}
    /\ pc' = [pc EXCEPT ![p] = "muUnlock"]
    /\ UNCHANGED sfButPc
    /\ UNCHANGED <<gmu, wall, gpeer, kfault, nGets, fetches, gtier, peerFailed,
                   errSeen, loads0>>
    /\ UNCHANGED <<grpVars, lruVars, ringVars, srvVars, shVars, pickVars>>

\* mu.Unlock()
MuUnlock(p) ==
    /\ pc[p] = "muUnlock"
    /\ gmu' = NoProc
    /\ pc' = [pc EXCEPT ![p] = "peerRet"]
    /\ UNCHANGED sfButPc
    /\ UNCHANGED <<gkeys, wall, gpeer, kwriters, kraced, kfault, nGets, fetches, gtier,
                   peerFailed, errSeen, loads0>>
    /\ UNCHANGED <<grpVars, lruVars, ringVars, srvVars, shVars, pickVars>>

\* variant of KeyCreate with a fault: the first fetch counts as reaching the threshold
KeyCreateReached(p) ==
    /\ pc[p] = "create"
    /\ WriteBegin(p)
    /\ gtier' = [gtier EXCEPT ![p] = "reached"]
    /\ pc' = [pc EXCEPT ![p] = "createEnd"]
    /\ UNCHANGED sfButPc
    /\ UNCHANGED <<gkeys, gmu, wall, gpeer, kfault, nGets, fetches, peerFailed,
                   errSeen, loads0>>
    /\ UNCHANGED <<grpVars, lruVars, ringVars, srvVars, shVars, pickVars>>

\* g.keys[key] = &KeyStats{...} begins (the first fetch of the key; mu is not taken)
KeyCreate(p) ==
    /\ pc[p] = "create"
    /\ WriteBegin(p)
    /\ gtier' = [gtier EXCEPT ![p] = "below"]
    /\ pc' = [pc EXCEPT ![p] = "createEnd"]
    /\ UNCHANGED sfButPc
    /\ UNCHANGED <<gkeys, gmu, wall, gpeer, kfault, nGets, fetches, peerFailed,
                   errSeen, loads0>>
    /\ UNCHANGED <<grpVars, lruVars, ringVars, srvVars, shVars, pickVars>>

\* g.keys[key] = &KeyStats{firstGetTime: time.Now(), remoteCnt: 1} ends; a raced write
\* may be lost
KeyCreateEnd(p, lands) ==
    /\ pc[p] = "createEnd"
    /\ lands \/ p \in kraced
    /\ gkeys' = IF lands
                THEN [gkeys EXCEPT ![gkey[p]] =
                         [present |-> TRUE, firstGetTime |-> wall, remoteCnt |-> 1]]
                ELSE gkeys
    /\ kwriters' = kwriters \ {p}
    /\ kraced' = kraced \ {p}
    /\ pc' = [pc EXCEPT ![p] = "peerRet"]
    /\ UNCHANGED sfButPc
    /\ UNCHANGED <<gmu, wall, gpeer, kfault, nGets, fetches, gtier, peerFailed,
                   errSeen, loads0>>
    /\ UNCHANGED <<grpVars, lruVars, ringVars, srvVars, shVars, pickVars>>

\* two writes of g.keys overlap and the runtime notices: fatal error "concurrent map
\* writes", the process and every goroutine in it end
KeysFault ==
    /\ Cardinality(kwriters) > 1
    /\ kfault' = TRUE
    /\ pc' = [p \in Procs |-> "crashed"]
    /\ gpc' = [p \in Procs |-> "crashed"]
    /\ UNCHANGED sfButPc
    /\ UNCHANGED <<peers, hotCache, mainCache, gkey, gval, gres, loads>>
    /\ UNCHANGED <<gkeys, gmu, wall, gpeer, kwriters, kraced, nGets, fetches, gtier,
                   peerFailed, errSeen, loads0>>
    /\ UNCHANGED <<lruVars, ringVars, srvVars, shVars, pickVars>>

\* return ByteView{b: res.Value}, nil: to the closure, which returns it to Do
\* (c.val, c.err = fn()), or to the caller that invoked getFromPeer itself
PeerReturn(p) ==
    /\ pc[p] = "peerRet"
    /\ fetches' = [fetches EXCEPT ![gkey[p]] = @ + 1]
    /\ IF gpc[p] = "direct"
       THEN /\ gres' = [gres EXCEPT ![p] = <<gpeer[p], "nil">>]
            /\ gpc' = [gpc EXCEPT ![p] = "done"]
            /\ pc' = [pc EXCEPT ![p] = "idle"]
            /\ UNCHANGED <<sfCalls, fnOut>>
       ELSE /\ sfCalls' = [sfCalls EXCEPT ![c[p]].val = gpeer[p], ![c[p]].err = "nil"]
            /\ fnOut' = [fnOut EXCEPT ![c[p]] = <<gpeer[p], "nil">>]
            /\ pc' = [pc EXCEPT ![p] = "done"]
            /\ UNCHANGED <<gres, gpc>>
    /\ UNCHANGED sfButRecord
    /\ UNCHANGED <<peers, hotCache, mainCache, gkey, gval, loads>>
    /\ UNCHANGED <<gkeys, gmu, wall, gpeer, kwriters, kraced, kfault, nGets, gtier,
                   peerFailed, errSeen, loads0>>
    /\ UNCHANGED <<lruVars, ringVars, srvVars, shVars, pickVars>>

\* variant of LoadDone with a fault: the error is dropped
LoadDoneDropsErr(p) ==
    /\ gpc[p] = "inDo"
    /\ pc[p] = "idle"
    /\ res[p][2] # "none"
    /\ gres' = [gres EXCEPT ![p] = <<NoBytes, "nil">>]
    /\ gpc' = [gpc EXCEPT ![p] = "done"]
    /\ errSeen' = errSeen
    /\ UNCHANGED <<peers, hotCache, mainCache, gkey, gval, loads>>
    /\ UNCHANGED <<gkeys, gmu, wall, gpeer, kwriters, kraced, kfault, nGets, fetches, gtier,
                   peerFailed, loads0>>
    /\ UNCHANGED <<sfVars, lruVars, ringVars, srvVars, shVars, pickVars>>

\* load after Do returned, as LoadReturn, with the history of errors kept
LoadDone(p) ==
    /\ gpc[p] = "inDo"
    /\ pc[p] = "idle"
    /\ res[p][2] # "none"
    /\ gres' = [gres EXCEPT ![p] = IF res[p][2] = "nil" THEN res[p] ELSE <<NoBytes, res[p][2]>>]
    /\ gpc' = [gpc EXCEPT ![p] = "done"]
    /\ errSeen' = [errSeen EXCEPT ![gkey[p]] = @ \/ res[p][2] # "nil"]
    /\ UNCHANGED <<peers, hotCache, mainCache, gkey, gval, loads>>
    /\ UNCHANGED <<gkeys, gmu, wall, gpeer, kwriters, kraced, kfault, nGets, fetches, gtier,
                   peerFailed, loads0>>
    /\ UNCHANGED <<sfVars, lruVars, ringVars, srvVars, shVars, pickVars>>

\* the wall clock moves on
WallTick ==
    /\ wall < MaxWall
    /\ wall' = wall + 1
    /\ UNCHANGED <<gkeys, gmu, gpeer, kwriters, kraced, kfault, nGets, fetches, gtier,
                   peerFailed, errSeen, loads0>>
    /\ UNCHANGED <<sfVars, grpVars, lruVars, ringVars, srvVars, shVars, pickVars>>

\* one step of a GetCacheData in progress
RemoteStep(p) ==
    \/ GetHot(p)
    \/ GetMain(p)
    \/ LoadCall(p)
    \/ LoaderStep(p)
    \/ ClosurePick(p)
    \/ ClosurePickRemote(p)
    \/ \E ok \in BOOLEAN : PeerGet(p, ok)
    \/ StatLookup(p)
    \/ StatCount(p)
    \/ PromoteHot(p)
    \/ MuLock(p)
    \/ KeyDelete(p)
    \/ \E lands \in BOOLEAN : KeyDeleteEnd(p, lands)
    \/ MuUnlock(p)
    \/ KeyCreate(p)
    \/ \E lands \in BOOLEAN : KeyCreateEnd(p, lands)
    \/ PeerReturn(p)
    \/ GetterCall(p)
    \/ PopulateMain(p)
    \/ PopulateHot(p)
    \/ LoadDone(p)

\* one step of a GetCacheData or getFromPeer in progress when there is one caller and a
\* remote peer for every key: Do finds no record to wait on
SoloStep(p) ==
    \/ GetHot(p)
    \/ GetMain(p)
    \/ LoadCall(p)
    \/ DoLock(p)
    \/ DoCheck(p)
    \/ DoDone(p)
    \/ DoRelock(p)
    \/ DoDelete(p)
    \/ DoReturn(p)
    \/ ClosurePickRemote(p)
    \/ \E ok \in BOOLEAN : PeerGet(p, ok)
    \/ StatLookup(p)
    \/ StatCount(p)
    \/ PromoteHot(p)
    \/ MuLock(p)
    \/ KeyDelete(p)
    \/ KeyDeleteEnd(p, TRUE)
    \/ MuUnlock(p)
    \/ KeyCreate(p)
    \/ KeyCreateEnd(p, TRUE)
    \/ PeerReturn(p)
    \/ GetterCall(p)
    \/ PopulateMain(p)
    \/ PopulateHot(p)
    \/ LoadDone(p)

\* --------------------------------------------------------- consistent hash
MaxAdded == 3      \* peers passed to Add over a run, repeats counted

\* a string is the sequence of its decimal digits, so that strconv.Itoa, the
\* concatenation in Add and the hash are computed, not assumed
RPeers == {<<2>>, <<4>>, <<6>>, <<1, 6>>}
RKeys == {<<2>>, <<3>>, <<5>>, <<7>>, <<1, 6>>, <<2, 0>>}
RReplicas == {1, 2}
EmptyString == <<>>
NoGot == [key |-> EmptyString, peer |-> EmptyString, done |-> FALSE]

\* strconv.Itoa(i), i >= 0
RECURSIVE Itoa(_)
Itoa(i) == IF i < 10 THEN <<i>> ELSE Itoa(i \div 10) \o <<i % 10>>

\* strconv.Atoi on a string of digits
RECURSIVE Atoi(_)
Atoi(str) ==
    IF str = <<>> THEN 0 ELSE 10 * Atoi(SubSeq(str, 1, Len(str) - 1)) + str[Len(str)]

\* m.hash: the Hash handed to New; here the hash of scenario S4, which reads the
\* string as a number (the strings used stay far below 2^32, where the conversions to
\* uint32 and back to int change nothing)
HashOf(str) == Atoi(str)

\* consistenthash.New(replicas, fn); hashMap is the set of its (hash, key) pairs
NewMap(replicas) == [replicas |-> replicas, ring |-> <<>>, hashMap |-> {}]

\* m.hashMap[hash] = key
MapPut(hm, hash, k) == {pr \in hm : pr[1] # hash} \cup {<<hash, k>>}

\* m.hashMap[hash]: a missing key reads as the empty string
MapAt(hm, hash) ==
    IF \E pr \in hm : pr[1] = hash
    THEN (CHOOSE pr \in hm : pr[1] = hash)[2]
    ELSE EmptyString

\* sort.Ints
RECURSIVE InsertSorted(_, _)
InsertSorted(sq, x) ==
    IF sq = <<>> THEN <<x>>
    ELSE IF x <= Head(sq) THEN <<x>> \o sq
    ELSE <<Head(sq)>> \o InsertSorted(Tail(sq), x)

RECURSIVE SortInts(_)
SortInts(sq) == IF sq = <<>> THEN <<>> ELSE InsertSorted(SortInts(Tail(sq)), Head(sq))

\* Add's inner loop, from replica i on
RECURSIVE AddReplicas(_, _, _)
AddReplicas(mp, k, i) ==
    IF i >= mp.replicas THEN mp
    ELSE LET hash == HashOf(Itoa(i) \o k)
         IN  AddReplicas([mp EXCEPT !.ring = Append(@, hash),
                                    !.hashMap = MapPut(@, hash, k)], k, i + 1)

\* Add's outer loop
RECURSIVE AddKeys(_, _)
AddKeys(mp, ks) ==
    IF ks = <<>> THEN mp ELSE AddKeys(AddReplicas(mp, Head(ks), 0), Tail(ks))

\* variant of MapAdd with a fault: the ring is left as appended
MapAddNoSort(mp, ks) == AddKeys(mp, ks)

\* (*Map).Add(keys...)
MapAdd(mp, ks) == [AddKeys(mp, ks) EXCEPT !.ring = SortInts(@)]

\* sort.Search(n, f) with f(i) = ring[i] >= hash, indices from 0
RECURSIVE Search(_, _, _, _)
Search(ring, hash, i, j) ==
    IF i >= j THEN i
    ELSE LET h == (i + j) \div 2
         IN  IF ~(ring[h + 1] >= hash)
             THEN Search(ring, hash, h + 1, j)
             ELSE Search(ring, hash, i, h)

\* variant of MapGet with a fault: an index past the end is clamped, not wrapped
MapGetNoWrap(mp, k) ==
    IF Len(mp.ring) = 0 THEN EmptyString
    ELSE LET idx == Search(mp.ring, HashOf(k), 0, Len(mp.ring))
         IN  MapAt(mp.hashMap, mp.ring[IF idx = Len(mp.ring) THEN idx ELSE idx + 1])

\* (*Map).Get(key)
MapGet(mp, k) ==
    IF Len(mp.ring) = 0 THEN EmptyString
    ELSE LET idx == Search(mp.ring, HashOf(k), 0, Len(mp.ring))
         IN  MapAt(mp.hashMap, mp.ring[(idx % Len(mp.ring)) + 1])

\* ---- the ring's caller: one operation at a time
RingIdle ==
    /\ hmap = NewMap(1)
    /\ hgot = NoGot
    /\ hadded = <<>>

\* the argument lists Add may still be given
AddArgs == UNION {[1..l -> RPeers] : l \in 1..(MaxAdded - Len(hadded))}

\* m.Add(ks...); hgot holds the Get made since the last Add
RingAddOp(ks) ==
    /\ Len(hadded) + Len(ks) <= MaxAdded
    /\ hmap' = MapAdd(hmap, ks)
    /\ hadded' = hadded \o ks
    /\ hgot' = NoGot
    /\ UNCHANGED <<sfVars, lruVars, grpVars, remVars, srvVars, shVars, pickVars>>

\* m.Get(k)
RingGetOp(k) ==
    /\ hgot' = [key |-> k, peer |-> MapGet(hmap, k), done |-> TRUE]
    /\ UNCHANGED <<hmap, hadded>>
    /\ UNCHANGED <<sfVars, lruVars, grpVars, remVars, srvVars, shVars, pickVars>>

\* ----------------------------------------------------------------- server
MaxSrvCalls == 4   \* Start and Stop invocations over a run
MaxStarts == 2     \* the Starts that get to make a channel

SrvCallers == {1, 2}
Chans == 1..MaxStarts
NoChan == 0

SrvIdle ==
    /\ srvMu = NoProc
    /\ status = FALSE
    /\ stopSignal = NoChan
    /\ srvPeers = "map"
    /\ srvClients = "map"
    /\ nChan = 0
    /\ chClosed = {}
    /\ lisOpen = {}
    /\ spc = [p \in Procs |-> "idle"]
    /\ sgen = [p \in Procs |-> NoChan]
    /\ sres = [p \in Procs |-> "none"]
    /\ reg = [g \in Chans |-> "none"]
    /\ regCh = [g \in Chans |-> NoChan]
    /\ srvFault = "none"
    /\ nSrv = 0
    /\ sent = [ch \in Chans |-> 0]

\* every server variable but spc; but spc and srvMu; but spc and sres
srvButPc == <<srvMu, status, stopSignal, srvPeers, srvClients, nChan, chClosed, lisOpen,
              sgen, sres, reg, regCh, srvFault, nSrv, sent>>
srvButMu == <<status, stopSignal, srvPeers, srvClients, nChan, chClosed, lisOpen,
              sgen, sres, reg, regCh, srvFault, nSrv, sent>>
nonSrvVars == <<sfVars, lruVars, grpVars, ringVars, remVars, shVars, pickVars>>

\* a caller invokes s.Start() or s.Stop()
SrvCall(p, op) ==
    /\ spc[p] = "idle"
    /\ nSrv < MaxSrvCalls
    /\ op = "Start" => nChan < MaxStarts
    /\ nSrv' = nSrv + 1
    /\ spc' = [spc EXCEPT ![p] = IF op = "Start" THEN "startLock" ELSE "stopLock"]
    /\ sres' = [sres EXCEPT ![p] = "none"]
    /\ UNCHANGED <<srvMu, status, stopSignal, srvPeers, srvClients, nChan, chClosed, lisOpen,
                   sgen, reg, regCh, srvFault, sent>>
    /\ UNCHANGED nonSrvVars

\* Start: s.mu.Lock()
StartLock(p) ==
    /\ spc[p] = "startLock"
    /\ srvMu = NoProc
    /\ srvMu' = p
    /\ spc' = [spc EXCEPT ![p] = "startCheck"]
    /\ UNCHANGED srvButMu
    /\ UNCHANGED nonSrvVars

\* Start: if s.status == true { s.mu.Unlock(); return error }; s.status = true;
\* s.stopSignal = make(chan error)
StartCheck(p) ==
    /\ spc[p] = "startCheck"
    /\ IF status
       THEN /\ srvMu' = NoProc
            /\ sres' = [sres EXCEPT ![p] = "already started"]
            /\ spc' = [spc EXCEPT ![p] = "idle"]
            /\ UNCHANGED <<status, stopSignal, nChan, sgen>>
       ELSE /\ status' = TRUE
            /\ nChan' = nChan + 1
            /\ stopSignal' = nChan + 1
            /\ sgen' = [sgen EXCEPT ![p] = nChan + 1]
            /\ spc' = [spc EXCEPT ![p] = "listen"]
            /\ UNCHANGED <<srvMu, sres>>
    /\ UNCHANGED <<srvPeers, srvClients, chClosed, lisOpen, reg, regCh, srvFault, nSrv, sent>>
    /\ UNCHANGED nonSrvVars

\* Start: lis, err := net.Listen("tcp", ":"+port); if err != nil { return error }.
\* Listening fails while an earlier listener of this server holds the port, and may fail
\* at any time; the failure path returns with s.mu still locked
StartListen(p, ok) ==
    /\ spc[p] = "listen"
    /\ ok => lisOpen = {}
    /\ IF ok
       THEN /\ lisOpen' = lisOpen \cup {sgen[p]}
            /\ spc' = [spc EXCEPT ![p] = "spawn"]
            /\ UNCHANGED sres
       ELSE /\ sres' = [sres EXCEPT ![p] = "failed to listen"]
            /\ spc' = [spc EXCEPT ![p] = "idle"]
            /\ UNCHANGED lisOpen
    /\ UNCHANGED <<srvMu, status, stopSignal, srvPeers, srvClients, nChan, chClosed,
                   sgen, reg, regCh, srvFault, nSrv, sent>>
    /\ UNCHANGED nonSrvVars

\* Start: go func() {...}(); s.mu.Unlock()
StartSpawn(p) ==
    /\ spc[p] = "spawn"
    /\ reg' = [reg EXCEPT ![sgen[p]] = "start"]
    /\ srvMu' = NoProc
    /\ spc' = [spc EXCEPT ![p] = "serve"]
    /\ UNCHANGED <<status, stopSignal, srvPeers, srvClients, nChan, chClosed, lisOpen,
                   sgen, sres, regCh, srvFault, nSrv, sent>>
    /\ UNCHANGED nonSrvVars

\* Start: grpcServer.Serve(lis) returns once lis is closed, with an error;
\* if s.status && err != nil { return error }; return nil
ServeReturn(p) ==
    /\ spc[p] = "serve"
    /\ sgen[p] \notin lisOpen
    /\ sres' = [sres EXCEPT ![p] = IF status THEN "failed to serve" ELSE "nil"]
    /\ spc' = [spc EXCEPT ![p] = "idle"]
    /\ UNCHANGED <<srvMu, status, stopSignal, srvPeers, srvClients, nChan, chClosed, lisOpen,
                   sgen, reg, regCh, srvFault, nSrv, sent>>
    /\ UNCHANGED nonSrvVars

\* the goroutine: registry.Register("gocache", s.self, s.stopSignal) is called with the
\* channel s.stopSignal refers to now, and blocks
RegEnter(g) ==
    /\ reg[g] = "start"
    /\ regCh' = [regCh EXCEPT ![g] = stopSignal]
    /\ reg' = [reg EXCEPT ![g] = "registered"]
    /\ UNCHANGED <<srvMu, status, stopSignal, srvPeers, srvClients, nChan, chClosed, lisOpen,
                   spc, sgen, sres, srvFault, nSrv, sent>>
    /\ UNCHANGED nonSrvVars

\* Register returns when it receives from the stop channel; a closed channel delivers
\* at once (a nil channel never does)
RegReceiveClosed(g) ==
    /\ reg[g] = "registered"
    /\ regCh[g] \in chClosed
    /\ reg' = [reg EXCEPT ![g] = "close"]
    /\ UNCHANGED <<srvMu, status, stopSignal, srvPeers, srvClients, nChan, chClosed, lisOpen,
                   spc, sgen, sres, regCh, srvFault, nSrv, sent>>
    /\ UNCHANGED nonSrvVars

\* the goroutine: close(s.stopSignal), the channel s.stopSignal refers to now; closing a
\* nil or closed channel panics, which ends the process
RegClose(g) ==
    /\ reg[g] = "close"
    /\ IF stopSignal = NoChan \/ stopSignal \in chClosed
       THEN /\ srvFault' = "close of nil or closed channel"
            /\ reg' = [h \in Chans |-> "crashed"]
            /\ spc' = [q \in Procs |-> "crashed"]
            /\ UNCHANGED chClosed
       ELSE /\ chClosed' = chClosed \cup {stopSignal}
            /\ reg' = [reg EXCEPT ![g] = "lisClose"]
            /\ UNCHANGED <<srvFault, spc>>
    /\ UNCHANGED <<srvMu, status, stopSignal, srvPeers, srvClients, nChan, lisOpen,
                   sgen, sres, regCh, nSrv, sent>>
    /\ UNCHANGED nonSrvVars

\* the goroutine: lis.Close()
RegLisClose(g) ==
    /\ reg[g] = "lisClose"
    /\ lisOpen' = lisOpen \ {g}
    /\ reg' = [reg EXCEPT ![g] = "exit"]
    /\ UNCHANGED <<srvMu, status, stopSignal, srvPeers, srvClients, nChan, chClosed,
                   spc, sgen, sres, regCh, srvFault, nSrv, sent>>
    /\ UNCHANGED nonSrvVars

\* Stop: s.mu.Lock()
StopLock(p) ==
    /\ spc[p] = "stopLock"
    /\ srvMu = NoProc
    /\ srvMu' = p
    /\ spc' = [spc EXCEPT ![p] = "stopCheck"]
    /\ UNCHANGED srvButMu
    /\ UNCHANGED nonSrvVars

\* Stop: if s.status == false { s.mu.Unlock(); return }
StopCheck(p) ==
    /\ spc[p] = "stopCheck"
    /\ IF ~status
       THEN /\ srvMu' = NoProc
            /\ sres' = [sres EXCEPT ![p] = "nil"]
            /\ spc' = [spc EXCEPT ![p] = "idle"]
       ELSE /\ spc' = [spc EXCEPT ![p] = "stopSend"]
            /\ UNCHANGED <<srvMu, sres>>
    /\ UNCHANGED <<status, stopSignal, srvPeers, srvClients, nChan, chClosed, lisOpen,
                   sgen, reg, regCh, srvFault, nSrv, sent>>
    /\ UNCHANGED nonSrvVars

\* Stop: s.stopSignal <- nil. The channel is unbuffered: the send completes when a
\* goroutine blocked in Register on that channel receives; on a closed channel it panics
StopSend(p) ==
    /\ spc[p] = "stopSend"
    /\ IF stopSignal \in chClosed
       THEN /\ srvFault' = "send on closed channel"
            /\ reg' = [h \in Chans |-> "crashed"]
            /\ spc' = [q \in Procs |-> "crashed"]
            /\ UNCHANGED sent
       ELSE /\ \E g \in Chans :
                /\ reg[g] = "registered"
                /\ regCh[g] = stopSignal
                /\ reg' = [reg EXCEPT ![g] = "close"]
            /\ sent' = [sent EXCEPT ![stopSignal] = @ + 1]
            /\ spc' = [spc EXCEPT ![p] = "stopClear"]
            /\ UNCHANGED srvFault
    /\ UNCHANGED <<srvMu, status, stopSignal, srvPeers, srvClients, nChan, chClosed, lisOpen,
                   sgen, sres, regCh, nSrv>>
    /\ UNCHANGED nonSrvVars

\* Stop: s.status = false; s.clients = nil; s.peers = nil; s.mu.Unlock()
StopClear(p) ==
    /\ spc[p] = "stopClear"
    /\ status' = FALSE
    /\ srvClients' = "nil"
    /\ srvPeers' = "nil"
    /\ srvMu' = NoProc
    /\ sres' = [sres EXCEPT ![p] = "nil"]
    /\ spc' = [spc EXCEPT ![p] = "idle"]
    /\ UNCHANGED <<stopSignal, nChan, chClosed, lisOpen, sgen, reg, regCh, srvFault, nSrv, sent>>
    /\ UNCHANGED nonSrvVars

\* ------------------------------------------------- server: the peer table
SrvReplicas == 2   \* defaultReplicas, kept small: virtual nodes per peer

SrvSelf == <<2>>
SrvAddrs == {<<2>>, <<4>>}
PickKeys == {<<3>>, <<5>>}
NoPick == [isNil |-> TRUE, client |-> EmptyString, ok |-> FALSE]

\* NewServer(self): peers: consistenthash.New(defaultReplicas, nil), clients: map[string]*Client{}
PickIdle ==
    /\ srvMap = NewMap(SrvReplicas)
    /\ srvCli = {}
    /\ sarg = [p \in Procs |-> EmptyString]
    /\ spick = [p \in Procs |-> NoPick]

\* s.mu, and the server variables Set and PickPeer only read
srvRead == <<status, stopSignal, srvPeers, srvClients, nChan, chClosed, lisOpen,
             sgen, sres, reg, regCh, sent>>
nonPickVars == <<sfVars, lruVars, grpVars, ringVars, remVars, shVars>>

\* a caller invokes s.Set(addr)
SetCall(p, addr) ==
    /\ spc[p] = "idle"
    /\ nSrv < MaxSrvCalls
    /\ nSrv' = nSrv + 1
    /\ sarg' = [sarg EXCEPT ![p] = addr]
    /\ spc' = [spc EXCEPT ![p] = "setLock"]
    /\ UNCHANGED <<srvMu, srvRead, srvFault, srvMap, srvCli, spick>>
    /\ UNCHANGED nonPickVars

\* a caller (the Group's load) invokes s.PickPeer(key)
PickCall(p, k) ==
    /\ spc[p] = "idle"
    /\ nSrv < MaxSrvCalls
    /\ nSrv' = nSrv + 1
    /\ sarg' = [sarg EXCEPT ![p] = k]
    /\ spick' = [spick EXCEPT ![p] = NoPick]
    /\ spc' = [spc EXCEPT ![p] = "pickLock"]
    /\ UNCHANGED <<srvMu, srvRead, srvFault, srvMap, srvCli>>
    /\ UNCHANGED nonPickVars

\* Set, PickPeer: s.mu.Lock()
PeersLock(p) ==
    /\ spc[p] \in {"setLock", "pickLock"}
    /\ srvMu = NoProc
    /\ srvMu' = p
    /\ spc' = [spc EXCEPT ![p] = IF spc[p] = "setLock" THEN "setBody" ELSE "pickBody"]
    /\ UNCHANGED <<srvRead, srvFault, nSrv, pickVars>>
    /\ UNCHANGED nonPickVars

\* Set: s.peers.Add(peersAddr...); s.clients[peerAddr] = NewClient(service); the deferred
\* s.mu.Unlock(). Add on a nil *Map dereferences it: the goroutine panics
SetBody(p) ==
    /\ spc[p] = "setBody"
    /\ IF srvPeers = "nil"
       THEN /\ srvFault' = "nil pointer dereference in Set"
            /\ reg' = [h \in Chans |-> "crashed"]
            /\ spc' = [q \in Procs |-> "crashed"]
            /\ UNCHANGED <<srvMu, srvMap, srvCli>>
       ELSE /\ srvMap' = MapAdd(srvMap, <<sarg[p]>>)
            /\ srvCli' = srvCli \cup {sarg[p]}
            /\ srvMu' = NoProc
            /\ spc' = [spc EXCEPT ![p] = "idle"]
            /\ UNCHANGED <<srvFault, reg>>
    /\ UNCHANGED <<status, stopSignal, srvPeers, srvClients, nChan, chClosed, lisOpen,
                   sgen, sres, regCh, sent, nSrv, sarg, spick>>
    /\ UNCHANGED nonPickVars

\* s.clients[peerAddr]: a nil map, or a key the map does not hold, gives a nil *Client
ClientOf(addr) ==
    IF srvClients # "nil" /\ addr \in srvCli
    THEN [isNil |-> FALSE, client |-> addr, ok |-> TRUE]
    ELSE [isNil |-> TRUE, client |-> EmptyString, ok |-> TRUE]

\* PickPeer: peerAddr := s.peers.Get(key); if peerAddr == s.self { return nil, false };
\* return s.clients[peerAddr], true; the deferred s.mu.Unlock(). Get on a nil *Map
\* dereferences it: the goroutine panics
PickBody(p) ==
    /\ spc[p] = "pickBody"
    /\ IF srvPeers = "nil"
       THEN /\ srvFault' = "nil pointer dereference in PickPeer"
            /\ reg' = [h \in Chans |-> "crashed"]
            /\ spc' = [q \in Procs |-> "crashed"]
            /\ UNCHANGED <<srvMu, spick>>
       ELSE /\ LET peerAddr == MapGet(srvMap, sarg[p])
               IN  spick' = [spick EXCEPT ![p] =
                                IF peerAddr = SrvSelf THEN NoPick ELSE ClientOf(peerAddr)]
            /\ srvMu' = NoProc
            /\ spc' = [spc EXCEPT ![p] = "idle"]
            /\ UNCHANGED <<srvFault, reg>>
    /\ UNCHANGED <<status, stopSignal, srvPeers, srvClients, nChan, chClosed, lisOpen,
                   sgen, sres, regCh, sent, nSrv, srvMap, srvCli, sarg>>
    /\ UNCHANGED nonPickVars

\* ------------------------------------------------------------------ shell
MaxShellOps == 4   \* add and get invocations over a run

ShCallers == {1, 2}
ShKeys == {"a", "b"}
ShVals == {"1"}
ShExpiries == {ZeroTime, 1}
NoArg == [key |-> "", value |-> NoBytes, expire |-> ZeroTime]
NoNode == [key |-> "", size |-> 0, did |-> "none"]
NoShret == <<NoBytes, FALSE>>

ShIdle ==
    /\ shell = NewShell(CacheBytes)
    /\ shW = NoProc
    /\ shR = {}
    /\ shpc = [p \in Procs |-> "idle"]
    /\ sharg = [p \in Procs |-> NoArg]
    /\ shnode = [p \in Procs |-> NoNode]
    /\ shret = [p \in Procs |-> NoShret]
    /\ shFault = FALSE
    /\ nShell = 0
    /\ mutators = {}

nonShVars == <<sfVars, lruVars, grpVars, ringVars, remVars, srvVars, pickVars>>

\* a goroutine calls c.add(key, value), value.Expire() = x
ShAddCall(p, k, v, x) ==
    /\ shpc[p] = "idle"
    /\ nShell < MaxShellOps
    /\ nShell' = nShell + 1
    /\ sharg' = [sharg EXCEPT ![p] = [key |-> k, value |-> v, expire |-> x]]
    /\ shpc' = [shpc EXCEPT ![p] = "addLock"]
    /\ UNCHANGED <<shell, shW, shR, shnode, shret, shFault, mutators>>
    /\ UNCHANGED nonShVars

\* a goroutine calls c.get(key)
ShGetCall(p, k) ==
    /\ shpc[p] = "idle"
    /\ nShell < MaxShellOps
    /\ nShell' = nShell + 1
    /\ sharg' = [sharg EXCEPT ![p] = [NoArg EXCEPT !.key = k]]
    /\ shret' = [shret EXCEPT ![p] = NoShret]
    /\ shpc' = [shpc EXCEPT ![p] = "getRLock"]
    /\ UNCHANGED <<shell, shW, shR, shnode, shFault, mutators>>
    /\ UNCHANGED nonShVars

\* add: c.mu.Lock()
ShAddLock(p) ==
    /\ shpc[p] = "addLock"
    /\ shW = NoProc
    /\ shR = {}
    /\ shW' = p
    /\ shpc' = [shpc EXCEPT ![p] = "addBody"]
    /\ UNCHANGED <<shell, shR, sharg, shnode, shret, shFault, nShell, mutators>>
    /\ UNCHANGED nonShVars

\* add: if c.lru == nil { c.lru = lru.New(c.cacheBytes, nil) }; c.lru.Add(...) begins
ShAddBegin(p) ==
    /\ shpc[p] = "addBody"
    /\ mutators' = mutators \cup {p}
    /\ shpc' = [shpc EXCEPT ![p] = "addWrite"]
    /\ UNCHANGED <<shell, shW, shR, sharg, shnode, shret, shFault, nShell>>
    /\ UNCHANGED nonShVars

\* (*LRUcache).add with the ByteView's own expiry: c.lru.Add(key, value, value.Expire())
ShellAddAt(sh, k, v, x) ==
    LET e == IF sh.isNil THEN LruNew(sh.cacheBytes) ELSE sh.lru
    IN  [sh EXCEPT !.isNil = FALSE, !.lru = LruAdd(e, k, v, x).e]

\* add: c.lru.Add(key, value, value.Expire()) has written the engine
ShAddEnd(p) ==
    /\ shpc[p] = "addWrite"
    /\ shell' = ShellAddAt(shell, sharg[p].key, sharg[p].value, sharg[p].expire)
    /\ mutators' = mutators \ {p}
    /\ shpc' = [shpc EXCEPT ![p] = "addUnlock"]
    /\ UNCHANGED <<shW, shR, sharg, shnode, shret, shFault, nShell>>
    /\ UNCHANGED nonShVars

\* add: the deferred c.mu.Unlock()
ShAddUnlock(p) ==
    /\ shpc[p] = "addUnlock"
    /\ shW' = NoProc
    /\ shpc' = [shpc EXCEPT ![p] = "idle"]
    /\ UNCHANGED <<shell, shR, sharg, shnode, shret, shFault, nShell, mutators>>
    /\ UNCHANGED nonShVars

\* get: c.mu.RLock()
ShGetRLock(p) ==
    /\ shpc[p] = "getRLock"
    /\ shW = NoProc
    /\ shR' = shR \cup {p}
    /\ shpc' = [shpc EXCEPT ![p] = "getBody"]
    /\ UNCHANGED <<shell, shW, sharg, shnode, shret, shFault, nShell, mutators>>
    /\ UNCHANGED nonShVars

\* get: if c.lru == nil { return }; c.lru.Get(key) up to its first write: the lookup
\* node, ok := c.cache[key], and the expiry test. A miss writes nothing, and neither does
\* a hit on the front node (list.MoveToFront returns at once when the node is the front)
ShGetLookup(p) ==
    /\ shpc[p] = "getBody"
    /\ LET k == sharg[p].key
           r == LruGet(shell.lru, k, now)
           i == NodeOf(shell.lru, k)
       IN  IF shell.isNil \/ r.did = "miss"
           THEN /\ shret' = [shret EXCEPT ![p] = NoShret]
                /\ shpc' = [shpc EXCEPT ![p] = "getRUnlock"]
                /\ UNCHANGED <<shnode, mutators>>
           ELSE IF r.did = "hit" /\ i = 1
           THEN /\ shret' = [shret EXCEPT ![p] = <<r.value, TRUE>>]
                /\ shpc' = [shpc EXCEPT ![p] = "getRUnlock"]
                /\ UNCHANGED <<shnode, mutators>>
           ELSE /\ shnode' = [shnode EXCEPT ![p] =
                                 [key |-> k, size |-> EntrySize(shell.lru.ll[i]), did |-> r.did]]
                /\ shret' = [shret EXCEPT ![p] =
                                IF r.did = "hit" THEN <<r.value, TRUE>> ELSE NoShret]
                /\ mutators' = mutators \cup {p}
                /\ shpc' = [shpc EXCEPT ![p] = "getWrite"]
    /\ UNCHANGED <<shell, shW, shR, sharg, shFault, nShell>>
    /\ UNCHANGED nonShVars

\* c.removeElement(node) for a node found earlier: c.ll.Remove(node) and
\* delete(c.cache, kv.key) do nothing when another goroutine has removed the node since,
\* c.curCapacity -= ... is made all the same
RemoveFound(e, nd) ==
    LET i == NodeOf(e, nd.key)
    IN  [e EXCEPT !.ll = IF i = 0 THEN e.ll ELSE RemoveAt(e.ll, i),
                  !.cache = e.cache \ {nd.key},
                  !.curCapacity = e.curCapacity - nd.size]

\* get: c.lru.Get's write, c.removeElement(node) or c.ll.MoveToFront(node), for the node
\* the lookup found. With another goroutine writing the engine at the same time, the
\* runtime may end the process instead
ShGetWrite(p, fatal) ==
    /\ shpc[p] = "getWrite"
    /\ fatal => mutators # {p}
    /\ IF fatal
       THEN /\ shFault' = TRUE
            /\ shpc' = [q \in Procs |-> "crashed"]
            /\ UNCHANGED <<shell, mutators>>
       ELSE /\ shell' = [shell EXCEPT !.lru =
                            IF shnode[p].did = "expired"
                            THEN RemoveFound(shell.lru, shnode[p])
                            ELSE [shell.lru EXCEPT
                                     !.ll = MoveToFront(@, NodeOf(shell.lru, shnode[p].key))]]
            /\ mutators' = mutators \ {p}
            /\ shpc' = [shpc EXCEPT ![p] = "getRUnlock"]
            /\ UNCHANGED shFault
    /\ UNCHANGED <<shW, shR, sharg, shnode, shret, nShell>>
    /\ UNCHANGED nonShVars

\* get: the deferred c.mu.RUnlock()
ShGetRUnlock(p) ==
    /\ shpc[p] = "getRUnlock"
    /\ shR' = shR \ {p}
    /\ shpc' = [shpc EXCEPT ![p] = "idle"]
    /\ UNCHANGED <<shell, shW, sharg, shnode, shret, shFault, nShell, mutators>>
    /\ UNCHANGED nonShVars

RestIdle ==
    /\ RingIdle
    /\ RemIdle
    /\ SrvIdle
    /\ ShIdle
    /\ PickIdle

\* ---- Spec: callers invoke Do again and again, on any key
Init ==
    /\ RestIdle
    /\ SfInitCommon
    /\ LruIdle
    /\ GrpIdle
    /\ pc = [p \in Procs |-> "idle"]
    /\ key = [p \in Procs |-> BurstKey]
    /\ nDo = 0

Next ==
    \/ \E p \in Callers, k \in Keys : DoCall(p, k)
    \/ \E p \in Procs : DoStep(p)

Spec == Init /\ [][Next]_vars

\* ---- SpecBurst: NProcs callers are inside Do(BurstKey, fn) at the same time, once each
InitBurst ==
    /\ RestIdle
    /\ SfInitCommon
    /\ LruIdle
    /\ GrpIdle
    /\ pc = [p \in Procs |-> "start"]
    /\ key = [p \in Procs |-> BurstKey]
    /\ nDo = NProcs

NextBurst == \E p \in Procs : DoStep(p)

SpecBurst == InitBurst /\ [][NextBurst]_vars

\* ---- SpecGroup: main.go's callers, all inside GetCacheData(GKey) at once on a cold
\* Group whose keys this node owns
InitGroup ==
    /\ RestIdle
    /\ SfIdle
    /\ LruIdle
    /\ peers \in {"nil", "self"}
    /\ hotCache = NewShell(CacheBytes)
    /\ mainCache = NewShell(CacheBytes)
    /\ gpc = [p \in Procs |-> "hot"]
    /\ gkey = [p \in Procs |-> GKey]
    /\ gval = [p \in Procs |-> NoBytes]
    /\ gres = [p \in Procs |-> NoGres]
    /\ loads = [k \in GKeys |-> 0]

NextGroup ==
    \/ \E p \in Procs : GetHot(p)
    \/ \E p \in Procs : GetMain(p)
    \/ \E p \in Procs : LoadCall(p)
    \/ \E p \in Procs : LoaderStep(p)
    \/ \E p \in Procs : ClosurePick(p)
    \/ \E p \in Procs : GetterCall(p)
    \/ \E p \in Procs : PopulateMain(p)
    \/ \E p \in Procs : PopulateHot(p)
    \/ \E p \in Procs : LoadReturn(p)

SpecGroup == InitGroup /\ [][NextGroup]_vars

\* ---- SpecLRU: any sequence of Add, Get, RemoveOldest and clock ticks on an engine
InitLRU ==
    /\ RestIdle
    /\ SfIdle
    /\ GrpIdle
    /\ lru \in {LruNew(m) : m \in LCaps}
    /\ now = 1
    /\ ret = NoRet
    /\ tick = 0
    /\ evicted = <<>>
    /\ hung = FALSE
    /\ order = <<>>
    /\ oldest = <<>>

NextLRU ==
    \/ \E k \in LKeys, v \in LVals, x \in Expiries : AddOp(k, v, x)
    \/ \E k \in LKeys : GetOp(k)
    \/ RemoveOldestOp
    \/ ClockTick

SpecLRU == InitLRU /\ [][NextLRU]_vars

\* ---- SpecS1: the engine of scenario S1 (maxBytes = 10, entries that never expire)
InitS1 ==
    /\ RestIdle
    /\ SfIdle
    /\ GrpIdle
    /\ lru = LruNew(10)
    /\ now = 1
    /\ ret = NoRet
    /\ tick = 0
    /\ evicted = <<>>
    /\ hung = FALSE
    /\ order = <<>>
    /\ oldest = <<>>

NextS1 ==
    \/ \E k \in S1Keys, v \in S1Vals : AddOp(k, v, ZeroTime)
    \/ \E k \in S1Keys : GetOp(k)
    \/ RemoveOldestOp

SpecS1 == InitS1 /\ [][NextS1]_vars

\* ---- SpecRing: any sequence of Add and Get on a ring with 1 or 2 replicas per peer
InitRing ==
    /\ SrvIdle
    /\ ShIdle
    /\ PickIdle
    /\ SfIdle
    /\ LruIdle
    /\ GrpIdle
    /\ RemIdle
    /\ hmap \in {NewMap(r) : r \in RReplicas}
    /\ hgot = NoGot
    /\ hadded = <<>>

NextRing ==
    \/ \E ks \in AddArgs : RingAddOp(ks)
    \/ \E k \in RKeys : RingGetOp(k)

SpecRing == InitRing /\ [][NextRing]_vars

\* ---- SpecRemote: two callers invoke GetCacheData again and again, on any key, on a
\* Group whose picker answers either "this node" or a remote peer for every key; the
\* Group is new, or has fetched GKey from its peer WarmCount times already
RemCallers == {1, 2}
WarmCount == maxMinuteRemoteQPS - 1
WarmStat == [present |-> TRUE, firstGetTime |-> 0, remoteCnt |-> WarmCount]

InitRemote ==
    /\ SrvIdle
    /\ ShIdle
    /\ PickIdle
    /\ SfIdle
    /\ LruIdle
    /\ RingIdle
    /\ peers \in {"self", "remote"}
    /\ hotCache = NewShell(CacheBytes)
    /\ mainCache = NewShell(CacheBytes)
    /\ gpc = [p \in Procs |-> "none"]
    /\ gkey = [p \in Procs |-> ""]
    /\ gval = [p \in Procs |-> NoBytes]
    /\ gres = [p \in Procs |-> NoGres]
    /\ loads = [k \in GKeys |-> 0]
    /\ \E warm \in BOOLEAN :
        /\ warm => peers = "remote"
        /\ gkeys = [k \in GKeys |-> IF warm /\ k = GKey THEN WarmStat ELSE NoStat]
        /\ fetches = [k \in GKeys |-> IF warm /\ k = GKey THEN WarmCount ELSE 0]
    /\ gmu = NoProc
    /\ wall = 0
    /\ gpeer = [p \in Procs |-> NoBytes]
    /\ kwriters = {}
    /\ kraced = {}
    /\ kfault = FALSE
    /\ nGets = 0
    /\ gtier = [p \in Procs |-> "none"]
    /\ peerFailed = [p \in Procs |-> FALSE]
    /\ errSeen = [k \in GKeys |-> FALSE]
    /\ loads0 = [p \in Procs |-> -1]

NextRemote ==
    \/ \E p \in RemCallers, k \in GKeys : GetCall(p, k)
    \/ \E p \in RemCallers : RemoteStep(p)
    \/ KeysFault

SpecRemote == InitRemote /\ [][NextRemote]_vars

\* ---- SpecPromo: one caller, a remote peer for every key; GetCacheData and getFromPeer
\* on GKey, one call after the other, while the wall clock runs
InitPromo ==
    /\ SrvIdle
    /\ ShIdle
    /\ PickIdle
    /\ SfIdle
    /\ LruIdle
    /\ RingIdle
    /\ RemIdle
    /\ peers = "remote"
    /\ hotCache = NewShell(CacheBytes)
    /\ mainCache = NewShell(CacheBytes)
    /\ gpc = [p \in Procs |-> "none"]
    /\ gkey = [p \in Procs |-> ""]
    /\ gval = [p \in Procs |-> NoBytes]
    /\ gres = [p \in Procs |-> NoGres]
    /\ loads = [k \in GKeys |-> 0]

NextPromo ==
    \/ GetCall(1, GKey)
    \/ FetchCall(1, GKey)
    \/ SoloStep(1)
    \/ WallTick

SpecPromo == InitPromo /\ [][NextPromo]_vars

\* ---- SpecServer: two callers invoke Start and Stop in any order and at any time
InitServer ==
    /\ SfIdle
    /\ LruIdle
    /\ GrpIdle
    /\ RingIdle
    /\ RemIdle
    /\ SrvIdle
    /\ ShIdle
    /\ PickIdle

NextServer ==
    \/ \E p \in SrvCallers, op \in {"Start", "Stop"} : SrvCall(p, op)
    \/ \E p \in SrvCallers : StartLock(p)
    \/ \E p \in SrvCallers : StartCheck(p)
    \/ \E p \in SrvCallers, ok \in BOOLEAN : StartListen(p, ok)
    \/ \E p \in SrvCallers : StartSpawn(p)
    \/ \E p \in SrvCallers : ServeReturn(p)
    \/ \E g \in Chans : RegEnter(g)
    \/ \E g \in Chans : RegReceiveClosed(g)
    \/ \E g \in Chans : RegClose(g)
    \/ \E g \in Chans : RegLisClose(g)
    \/ \E p \in SrvCallers : StopLock(p)
    \/ \E p \in SrvCallers : StopCheck(p)
    \/ \E p \in SrvCallers : StopSend(p)
    \/ \E p \in SrvCallers : StopClear(p)

SpecServer == InitServer /\ [][NextServer]_vars

\* ---- SpecPick: two callers invoke Set, Start, Stop and PickPeer in any order
NextPick ==
    \/ \E p \in SrvCallers, op \in {"Start", "Stop"} : SrvCall(p, op)
    \/ \E p \in SrvCallers, addr \in SrvAddrs : SetCall(p, addr)
    \/ \E p \in SrvCallers, k \in PickKeys : PickCall(p, k)
    \/ \E p \in SrvCallers : StartLock(p)
    \/ \E p \in SrvCallers : StartCheck(p)
    \/ \E p \in SrvCallers, ok \in BOOLEAN : StartListen(p, ok)
    \/ \E p \in SrvCallers : StartSpawn(p)
    \/ \E p \in SrvCallers : ServeReturn(p)
    \/ \E g \in Chans : RegEnter(g)
    \/ \E g \in Chans : RegReceiveClosed(g)
    \/ \E g \in Chans : RegClose(g)
    \/ \E g \in Chans : RegLisClose(g)
    \/ \E p \in SrvCallers : StopLock(p)
    \/ \E p \in SrvCallers : StopCheck(p)
    \/ \E p \in SrvCallers : StopSend(p)
    \/ \E p \in SrvCallers : StopClear(p)
    \/ \E p \in SrvCallers : PeersLock(p)
    \/ \E p \in SrvCallers : SetBody(p)
    \/ \E p \in SrvCallers : PickBody(p)

SpecPick == InitServer /\ [][NextPick]_vars

\* ---- SpecShell: two goroutines call add and get on one shell, the clock advances
InitShell ==
    /\ SfIdle
    /\ LruIdle
    /\ GrpIdle
    /\ RingIdle
    /\ RemIdle
    /\ SrvIdle
    /\ ShIdle
    /\ PickIdle

NextShell ==
    \/ \E p \in ShCallers, k \in ShKeys, v \in ShVals, x \in ShExpiries : ShAddCall(p, k, v, x)
    \/ \E p \in ShCallers, k \in ShKeys : ShGetCall(p, k)
    \/ \E p \in ShCallers : ShAddLock(p)
    \/ \E p \in ShCallers : ShAddBegin(p)
    \/ \E p \in ShCallers : ShAddEnd(p)
    \/ \E p \in ShCallers : ShAddUnlock(p)
    \/ \E p \in ShCallers : ShGetRLock(p)
    \/ \E p \in ShCallers : ShGetLookup(p)
    \/ \E p \in ShCallers, fatal \in BOOLEAN : ShGetWrite(p, fatal)
    \/ \E p \in ShCallers : ShGetRUnlock(p)
    \/ ClockTick

SpecShell == InitShell /\ [][NextShell]_vars

\* ------------------------------------------------------ claims: singleflight
Running(k) == {p \in Procs : pc[p] = "running" /\ key[p] = k}
AllReturned == \A p \in Procs : pc[p] = "idle" /\ res[p] # NoRes
Joined(i) == {p \in Procs : c[p] = i}

\* C1: at every moment at most one invocation of fn per key is executing, and the
\* goroutine executing fn does not hold g.mu; invocations for different keys may overlap.
C1_AtMostOneFnPerKey ==
    /\ \A k \in Keys : Cardinality(Running(k)) <= 1
    /\ \A p \in Procs : pc[p] \in {"fn", "running", "done"} => sfMu # p

C1_Witness ==
    \E p, q \in Procs : p # q /\ pc[p] = "running" /\ pc[q] = "running" /\ key[p] # key[q]

\* C2 as stated: once the N concurrent callers of Do(k, fn) have returned, fn's counter
\* has advanced by exactly 1 and all N results are identical.
C2_ExactlyOnce ==
    AllReturned =>
        /\ fnCount[BurstKey] = 1
        /\ \A p, q \in Procs : res[p] = res[q]

\* C2 as amended: once the N concurrent callers have returned, the counter has advanced
\* once per call record installed (at least once, at most N times), every caller returned
\* what the fn of the record it joined produced, so callers sharing a record returned
\* identical results; when all N joined one record the counter advanced by exactly 1.
C2_OncePerRecord ==
    AllReturned =>
        /\ fnCount[BurstKey] = sfN
        /\ fnCount[BurstKey] >= 1 /\ fnCount[BurstKey] <= NProcs
        /\ \A p \in Procs : c[p] \in 1..sfN /\ res[p] = fnOut[c[p]]
        /\ \A p, q \in Procs : c[p] = c[q] => res[p] = res[q]
        /\ (\A p, q \in Procs : c[p] = c[q]) =>
               (fnCount[BurstKey] = 1 /\ \A p, q \in Procs : res[p] = res[q])

C2_Witness ==
    /\ AllReturned
    /\ fnCount[BurstKey] = 1
    /\ \A p \in Procs : res[p] = <<1, "nil">>
    /\ Cardinality({p \in Procs : role[p] = "waiter"}) = NProcs - 1

\* C3: a caller that found an in-flight record returns exactly the (value, error) the
\* leader's fn produced, the error unchanged, and never before fn has produced it.
C3_WaiterGetsLeaderResult ==
    \A p \in Procs :
        role[p] = "waiter" =>
            /\ pc[p] \in {"wret", "idle"} => fnOut[c[p]] # NoRes
            /\ pc[p] = "idle" => res[p] = fnOut[c[p]]

C3_Witness ==
    \E p, q \in Procs :
        /\ role[p] = "waiter" /\ pc[p] = "idle" /\ res[p][2] = "err"
        /\ role[q] = "leader" /\ c[q] = c[p] /\ pc[q] = "idle" /\ res[q] = res[p]

RecordRemoved == \A i \in CallIds : retd[i] => \A k \in MapKeys : sfM[k] # i

JoinFresh ==
    \A p \in Procs :
        (c'[p] # c[p] /\ c'[p] # NoCall) =>
            /\ ~retd[c'[p]]
            /\ \A i \in CallIds : (retd[i] /\ ckey[i] = key[p]) => i < c'[p]

\* C4: the in-flight record is out of the map before its leader returns, whether fn
\* succeeded or failed, and no Do ever joins a record whose leader has returned: a Do
\* that starts after the leader returned takes its result from a later invocation of fn.
C4_FreshAfterReturn == [](RecordRemoved) /\ [][JoinFresh]_vars

\* a leader returned fn's error, and a later Do on the same key ran fn again
C4_Witness ==
    \E p \in Procs, i \in CallIds :
        /\ retd[i] /\ fnOut[i][2] = "err"
        /\ pc[p] = "idle" /\ role[p] = "leader" /\ c[p] > i /\ ckey[c[p]] = ckey[i]
        /\ res[p] = <<fnOut[i][1] + 1, "nil">>

\* ------------------------------------------------------------- claims: lru
RECURSIVE SumSizes(_)
SumSizes(l) == IF l = <<>> THEN 0 ELSE EntrySize(Head(l)) + SumSizes(Tail(l))

KeysOf(l) == {l[i].key : i \in 1..Len(l)}
KeySeq(l) == [i \in 1..Len(l) |-> l[i].key]
\* the entry stored under k (k is in the list)
EntryOf(e, k) == e.ll[NodeOf(e, k)]
Stepped == tick' # tick

\* C6: with maxCapacity > 0, whenever Add, Get or RemoveOldest has returned,
\* curCapacity <= maxCapacity; and Add's eviction loop always ends.
C6_WithinCapacity ==
    /\ ~hung
    /\ lru.maxCapacity > 0 => lru.curCapacity <= lru.maxCapacity

\* an entry larger than maxCapacity was added: everything, itself included, was evicted
C6_Witness ==
    /\ ret.op = "Add"
    /\ lru.maxCapacity > 0
    /\ Len(ret.key) + Len(ret.value) > lru.maxCapacity
    /\ Len(evicted) >= 2
    /\ evicted[Len(evicted)] = ret.key
    /\ lru.ll = <<>> /\ lru.curCapacity = 0

\* C7: curCapacity is the sum of len(key) + value.Len() over the entries in the engine,
\* and the map and the list hold the same keys, each once.
C7_Accounting ==
    /\ lru.curCapacity = SumSizes(lru.ll)
    /\ KeysOf(lru.ll) = lru.cache
    /\ Len(lru.ll) = Cardinality(lru.cache)

\* an in-place update by Add to a longer value, with another entry beside it
C7_Witness ==
    /\ ret.op = "Add" /\ ret.did = "update" /\ ret.value = "333"
    /\ Len(lru.ll) = 2
    /\ lru.ll[1].key = ret.key
    /\ lru.curCapacity = 7

GetStepOk(k) ==
    (Stepped /\ ret'.op = "Get" /\ ret'.key = k /\ k \in lru.cache) =>
        LET kv == EntryOf(lru, k)
        IN  IF kv.expire # ZeroTime /\ kv.expire < now
            THEN /\ ~ret'.ok /\ ret'.value = NilVal
                 /\ k \notin lru'.cache
                 /\ k \notin KeysOf(lru'.ll)
                 /\ lru'.curCapacity = lru.curCapacity - (Len(k) + Len(kv.value))
            ELSE /\ ret'.ok /\ ret'.value = kv.value
                 /\ k \in lru'.cache
                 /\ lru'.ll[1] = kv
                 /\ lru'.curCapacity = lru.curCapacity

AddStepOk(k) ==
    (Stepped /\ ret'.op = "Add" /\ ret'.key = k /\ k \in lru'.cache) =>
        lru'.ll[1] = [key |-> k, value |-> ret'.value, expire |-> ret'.expire]

EntryKept(k) ==
    (k \in lru.cache /\ k \in lru'.cache /\ ~(Stepped /\ ret'.op = "Add" /\ ret'.key = k)) =>
        EntryOf(lru', k) = EntryOf(lru, k)

\* C8: Get(k) on a present entry whose expiry is non-zero and strictly before the clock
\* removes it (map, list, byte count) and returns not-found; on a present entry with zero
\* expiry or expiry not before now it returns the stored value and keeps the entry; Add
\* stores the value and expiry it is given and no other operation changes a stored entry,
\* so an entry added with a future expiry is returned until the clock passes it.
C8_GetExpiry ==
    [][\A k \in LKeys : GetStepOk(k) /\ AddStepOk(k) /\ EntryKept(k)]_vars

\* an expired entry was just removed by Get while another entry stayed
C8_Witness ==
    /\ ret.op = "Get" /\ ret.did = "expired" /\ ~ret.ok
    /\ ret.key \notin lru.cache
    /\ Len(lru.ll) >= 1

\* C9: every capacity eviction removes the entry whose last touch (insert or update by
\* Add, successful Get) is the oldest among those present: the list is in last-touch
\* order and the victims of an operation are the least recently touched keys, oldest first.
C9_EvictsLeastRecentlyTouched ==
    /\ KeySeq(lru.ll) = order
    /\ evicted = oldest

\* an update by Add made its key the most recent and pushed the oldest entry out
C9_Witness ==
    /\ ret.op = "Add" /\ ret.did = "update"
    /\ Len(evicted) = 1
    /\ Len(lru.ll) = 2
    /\ lru.ll[1].key = ret.key

\* scenario S1: the engine after Add("a","1"), Add("b","22"), Add("c","333"), and the
\* step Add("d","4444") from there
S1Entry(k, v) == [key |-> k, value |-> v, expire |-> ZeroTime]
S1Three == <<S1Entry("c", "333"), S1Entry("b", "22"), S1Entry("a", "1")>>
S1Counts ==
    /\ lru.ll = <<S1Entry("a", "1")>> => lru.curCapacity = 2
    /\ lru.ll = <<S1Entry("b", "22"), S1Entry("a", "1")>> => lru.curCapacity = 5
    /\ lru.ll = S1Three => lru.curCapacity = 9
S1AddD == lru.ll = S1Three /\ Stepped /\ ret'.op = "Add" /\ ret'.key = "d" /\ ret'.value = "4444"

\* C10 as stated: in S1 the byte counts after the first three Adds are 2, 5 and 9, and
\* Add("d", "4444") then evicts "a" and leaves the engine at size 10.
C10_S1EvictsAOnly ==
    [][S1Counts /\ (S1AddD => (evicted' = <<"a">> /\ lru'.curCapacity = 10))]_vars

\* C10 as amended: the byte counts are 2, 5 and 9, and Add("d", "4444") takes the size
\* to 14, evicts "a" and then "b", and leaves "d" and "c" at size 9.
C10_S1EvictsAThenB ==
    [][S1Counts /\ (S1AddD => /\ evicted' = <<"a", "b">>
                              /\ lru'.ll = <<S1Entry("d", "4444"), S1Entry("c", "333")>>
                              /\ lru'.curCapacity = 9)]_vars

C10_Witness ==
    /\ ret.op = "Add" /\ ret.key = "d" /\ ret.value = "4444" /\ ret.did = "insert"
    /\ evicted = <<"a", "b">>
    /\ lru.ll = <<S1Entry("d", "4444"), S1Entry("c", "333")>>
    /\ lru.curCapacity = 9

\* ----------------------------------------------------------- claims: group
AllGot == \A p \in Procs : gpc[p] = "done"

\* C5: on a Group that owns the key, once the concurrent callers of GetCacheData(k) on a
\* cold key have returned, the user loader was invoked exactly once and every caller
\* returned the loader's value.
C5_LoaderOnce ==
    AllGot =>
        /\ loads[GKey] = 1
        /\ \A p \in Procs : gres[p] = <<Db[GKey], "nil">>

\* ------------------------------------------------- claims: consistent hash
Min(S) == CHOOSE x \in S : \A y \in S : x <= y
Sorted(sq) == \A i \in 1..(Len(sq) - 1) : sq[i] <= sq[i + 1]
\* the ring positions that map to peer q
VirtualOf(mp, q) == {i \in 1..Len(mp.ring) : MapAt(mp.hashMap, mp.ring[i]) = q}
S4Ring == hmap.replicas = 1 /\ hadded = <<<<6>>, <<4>>, <<2>>>>

\* C11: Get(key) on a non-empty ring returns the peer mapped to the smallest virtual hash
\* >= hash(key), or to the smallest virtual hash of all when none is >= hash(key); on an
\* empty ring it returns the empty string. In S4 (replicas = 1, peers 6, 4, 2) the ring is
\* [2, 4, 6] and Get(3) = 4, Get(5) = 6, Get(7) = 2.
C11_GetClockwise ==
    /\ hgot.done =>
        IF hmap.ring = <<>>
        THEN hgot.peer = EmptyString
        ELSE LET ge == {v \in Range(hmap.ring) : v >= HashOf(hgot.key)}
                 t == IF ge # {} THEN Min(ge) ELSE Min(Range(hmap.ring))
             IN  hgot.peer = MapAt(hmap.hashMap, t)
    /\ S4Ring =>
        /\ hmap.ring = <<2, 4, 6>>
        /\ (hgot.done /\ hgot.key = <<3>>) => hgot.peer = <<4>>
        /\ (hgot.done /\ hgot.key = <<5>>) => hgot.peer = <<6>>
        /\ (hgot.done /\ hgot.key = <<7>>) => hgot.peer = <<2>>

\* S4's ring answered Get(7) by wrapping around
C11_Witness == S4Ring /\ hgot.done /\ hgot.key = <<7>> /\ hgot.peer = <<2>>

\* C12: after any sequence of Add calls, the same peer added more than once included,
\* the ring is sorted, its length is replicas times the number of distinct peers, and
\* each peer has exactly `replicas` virtual hashes on the ring.
C12_RingShape ==
    /\ Sorted(hmap.ring)
    /\ Len(hmap.ring) = hmap.replicas * Cardinality(Range(hadded))
    /\ \A q \in Range(hadded) : Cardinality(VirtualOf(hmap, q)) = hmap.replicas

\* ---------------------------------------------- claims: group, remote path
\* the positions inside getFromPeer after the peer answered
FetchPcs == {"stat", "count", "create", "createEnd", "promote", "muLock", "del", "delEnd",
             "muUnlock", "peerRet"}
\* the goroutine's getFromPeer returned a value
Fetched(p) == gtier[p] # "none" /\ pc[p] \notin FetchPcs
FetchStep(p) == pc[p] \in FetchPcs /\ pc'[p] # pc[p]

\* C13 as stated: after a successful remote fetch of k below the promotion threshold k is
\* in the main cache and not in the hot cache; after one that reaches the threshold k is
\* in both caches.
C13_TierAfterRemote ==
    \A p \in Procs :
        Fetched(p) =>
            IF gtier[p] = "below"
            THEN InMain(gkey[p]) /\ ~InHot(gkey[p])
            ELSE InMain(gkey[p]) /\ InHot(gkey[p])

RemoteLeavesMain ==
    \A p \in Procs :
        FetchStep(p) =>
            /\ mainCache' = mainCache
            /\ pc[p] # "promote" => hotCache' = hotCache

RemoteTiers ==
    /\ \A k \in GKeys : loads[k] = 0 => ~InMain(k)
    /\ \A k \in GKeys : (loads[k] = 0 /\ fetches[k] + 1 < maxMinuteRemoteQPS) => ~InHot(k)
    /\ \A p \in Procs : (Fetched(p) /\ gtier[p] = "reached") => InHot(gkey[p])

\* C13 as amended: a remote fetch never writes the main cache, and writes the hot cache
\* only when it reaches the threshold. So a key that was only ever fetched remotely is
\* in neither cache while below the threshold, and in the hot cache alone once a fetch
\* reached it; the main cache holds a key only after the local loader returned it.
C13_RemoteFillsHotOnly == [](RemoteTiers) /\ [][RemoteLeavesMain]_vars

\* a fetch reached the threshold with no local load before: hot cache only
C13_Witness ==
    /\ Fetched(1) /\ gtier[1] = "reached" /\ gpc[1] = "done"
    /\ InHot(GKey) /\ ~InMain(GKey)

WithinMinute == wall * TickSeconds <= 60
NoFetchRunning == \A p \in Procs : pc[p] \notin FetchPcs
\* no GetCacheData(GKey) has gone past the hot cache, but for the one whose load made
\* the latest fetch
PastHot ==
    \A p \in Procs :
        gkey[p] = GKey =>
            /\ gpc[p] \notin {"main", "load"}
            /\ gpc[p] = "inDo" => pc[p] \in {"done", "relock", "delete", "ret", "idle"}

\* C14 as stated (S6): after 11 successful remote fetches of k within one minute the
\* value is in the hot cache and k has no entry in keyStats, and the next
\* GetCacheData(k) is served from the hot cache.
C14_S6Eleven ==
    (WithinMinute /\ fetches[GKey] = 11 /\ NoFetchRunning) =>
        /\ InHot(GKey)
        /\ ~gkeys[GKey].present
        /\ PastHot

\* C14 as amended: the 10th successful remote fetch of k within one minute promotes: after
\* it the value is in the hot cache and k has no entry in keyStats; an 11th fetch
\* (getFromPeer called again) starts a new entry with count 1; from the 10th fetch on
\* GetCacheData(k) is served from the hot cache.
C14_S6Ten ==
    WithinMinute =>
        /\ (fetches[GKey] = 10 /\ NoFetchRunning) =>
               InHot(GKey) /\ ~gkeys[GKey].present
        /\ (fetches[GKey] = 11 /\ NoFetchRunning) =>
               /\ InHot(GKey)
               /\ gkeys[GKey].present
               /\ gkeys[GKey].remoteCnt = 1
        /\ fetches[GKey] >= 10 => PastHot

\* after 11 fetches within the minute a GetCacheData(k) is at the hot cache, which holds k
C14_Witness ==
    /\ WithinMinute /\ fetches[GKey] = 11 /\ NoFetchRunning
    /\ gpc[1] = "hot" /\ InHot(GKey)

ErrReturned ==
    \A p \in Procs :
        (gpc[p] = "inDo" /\ gpc'[p] = "done" /\ fnOut[c[p]][2] = "err") =>
            gres'[p] = <<NoBytes, "err">>

ErrNotCached ==
    /\ \A k \in GKeys \ DOMAIN Db : ~InMain(k) /\ ~InHot(k)
    /\ \A p \in Procs :
        (gpc[p] = "done" /\ loads0[p] >= 0 /\ gkey[p] \notin DOMAIN Db) =>
            /\ loads[gkey[p]] > loads0[p]
            /\ gres[p] = <<NoBytes, "err">>

\* C15: when the loader returns an error during GetCacheData(k), the leader and every
\* caller coalesced on that load return the error, neither cache gains an entry for k,
\* and a GetCacheData(k) begun after the error was returned invokes the loader again.
C15_LoaderError == [](ErrNotCached) /\ [][ErrReturned]_vars

\* a leader and its waiter both returned the loader's error, and a later call began
\* after it
C15_Witness ==
    \E p, q \in Procs :
        /\ p # q /\ gkey[p] = NoKey /\ gkey[q] = NoKey
        /\ gpc[p] = "done" /\ loads0[p] >= 0 /\ gres[p] = <<NoBytes, "err">>
        /\ role[q] = "waiter" /\ gpc[q] = "done" /\ gres[q] = <<NoBytes, "err">>

LocalPcs == {"getter", "popMain", "popHot"}

FallbackKeepsStats ==
    \A p \in Procs :
        (peerFailed[p] /\ pc[p] \in LocalPcs /\ pc'[p] # pc[p]) => gkeys' = gkeys

FallbackResult ==
    \A p \in Procs :
        /\ gres[p][2] # "peerErr"
        /\ (peerFailed[p] /\ gpc[p] = "done") =>
               IF gkey[p] \in DOMAIN Db
               THEN /\ gres[p] = <<Db[gkey[p]], "nil">>
                    /\ InMain(gkey[p]) /\ InHot(gkey[p])
                    /\ loads[gkey[p]] > 0
               ELSE gres[p] = <<NoBytes, "err">>

\* C16: when PickPeer picks a remote peer for k and the peer's Get fails, load does not
\* return the peer's error: it invokes the local loader and returns the loader's
\* result, with k in the main and hot caches when the loader succeeded, and the steps
\* of the fallback leave keyStats as it was.
C16_PeerFailureFallsBack == [](FallbackResult) /\ [][FallbackKeepsStats]_vars

\* a load whose peer failed returned the local loader's value
C16_Witness ==
    \E p \in Procs :
        /\ peerFailed[p] /\ gpc[p] = "done"
        /\ gres[p] = <<Db[GKey], "nil">> /\ InMain(GKey) /\ InHot(GKey)

\* C19: every write of g.keys (creating the entry on a key's first remote fetch, deleting
\* it on promotion) is made while holding the package's mutex, so no two writes overlap;
\* and the mutex is not held during the peer call.
C19_KeysUnderMutex ==
    /\ \A p \in kwriters : gmu = p
    /\ Cardinality(kwriters) <= 1
    /\ \A p \in Procs : pc[p] = "peerGet" => gmu # p

\* ------------------------------------------------------------ claims: server
\* a Stop finds the server not running and returns
StopOnStopped(p) == spc[p] = "stopCheck" /\ ~status /\ spc'[p] = "idle"

StopOnStoppedIsNoOp ==
    \A p \in SrvCallers :
        StopOnStopped(p) =>
            UNCHANGED <<status, stopSignal, srvPeers, srvClients, nChan, chClosed, lisOpen, sent>>

OneSignalPerCycle == \A ch \in Chans : sent[ch] <= 1

NoSendOnClosed == srvFault # "send on closed channel"

\* C17: Server.Stop is idempotent: in any sequence of Start and Stop calls, a Stop on a
\* server that is not running changes no state, sends nothing on the stop channel and
\* returns; exactly one stop signal is sent per Start/Stop cycle, and no send happens
\* on a closed channel.
C17_StopIdempotent ==
    /\ [](OneSignalPerCycle /\ NoSendOnClosed)
    /\ [][StopOnStoppedIsNoOp]_vars

\* ------------------------------------------------------------- claims: shell
\* C18: the thread-safe cache shell serializes access to its engine: for a single shell,
\* no two operations that modify engine state (list order, map, byte count) execute at
\* the same time, under any interleaving of concurrent add and get callers, two
\* concurrent get calls included.
C18_EngineSerialized == Cardinality(mutators) <= 1

\* ------------------------------------------- claims: singleflight call records
\* the goroutines between installing a record for k and deleting it
Installers(k) ==
    {p \in Procs : key[p] = k /\ pc[p] \in {"fn", "running", "done", "relock", "delete"}}

\* a step that takes a record out of the map is its installer's delete
DeletedByInstaller ==
    \A k \in Keys :
        (sfM[k] # NoCall /\ sfM'[k] # sfM[k]) =>
            /\ sfM'[k] = NoCall
            /\ \E p \in Procs :
                   /\ pc[p] = "delete" /\ pc'[p] = "ret"
                   /\ key[p] = k /\ c[p] = sfM[k] /\ role[p] = "leader"

\* a step that puts a record into the map puts in a newly allocated one
InstalledFresh ==
    \A k \in Keys :
        (sfM'[k] # NoCall /\ sfM'[k] # sfM[k]) =>
            /\ sfM[k] = NoCall
            /\ sfN' = sfN + 1
            /\ sfM'[k] = sfN'

\* no record is in the map once its leader has returned, and none is in it twice
GoneAtReturn ==
    /\ \A i \in CallIds : retd[i] => \A k \in Keys : sfM[k] # i
    /\ \A k \in Keys : sfM[k] # NoCall => sfM[k] <= sfN /\ ckey[sfM[k]] = k

\* C20 (as stated): in every reachable state of a singleflight Group, the map holds a
\* record for key k if and only if an fn for k is currently executing; and each record
\* is deleted exactly once, by the caller that installed it.
C20_RecordIffFnRunning ==
    /\ [](\A k \in Keys : sfM[k] # NoCall <=> Running(k) # {})
    /\ [](GoneAtReturn)
    /\ [][DeletedByInstaller /\ InstalledFresh]_vars

\* C20 (amended): the map holds a record for key k if and only if the goroutine that
\* installed it is between installing and deleting it, a span that begins before fn is
\* entered and ends after the result is stored and the waiters are released; while an
\* fn for k is executing the map holds its record; and each record is deleted exactly
\* once, by the caller that installed it.
C20_RecordWhileInstallerInDo ==
    /\ [](\A k \in Keys :
            /\ sfM[k] # NoCall <=> Installers(k) # {}
            /\ Cardinality(Installers(k)) <= 1
            /\ \A p \in Installers(k) : c[p] = sfM[k] /\ role[p] = "leader"
            /\ Running(k) # {} => sfM[k] # NoCall)
    /\ [](GoneAtReturn)
    /\ [][DeletedByInstaller /\ InstalledFresh]_vars

\* a second record for a key is in the map and its fn is executing, after the first was
\* deleted and its leader returned, while a caller that joined the first still holds it
C20_Witness ==
    \E k \in Keys, i, j \in CallIds :
        /\ i < j /\ ckey[i] = k /\ retd[i]
        /\ sfM[k] = j /\ Running(k) # {}
        /\ \E q \in Procs : role[q] = "waiter" /\ c[q] = i /\ pc[q] \in {"wait", "wret"}

\* ---------------------------------------------------- claims: server, Start
StartPcs == {"startLock", "startCheck", "listen", "spawn", "serve"}

\* Start returns to caller p in this step
StartReturns(p) == spc[p] \in StartPcs /\ spc'[p] = "idle"

\* the server is serving, or another Start is on its way to serve
Serving == lisOpen # {} \/ \E q \in SrvCallers : spc[q] \in {"listen", "spawn"}

\* C21: whenever Server.Start returns, on any path (already started, listen failure,
\* serve ended), the server mutex is not held and status is true only if the server is
\* actually serving, so a later Stop, Set, PickPeer or Start can acquire the mutex and
\* proceed instead of blocking forever.
C21_StartReleasesMutex ==
    [][\A p \in SrvCallers :
          StartReturns(p) => (srvMu' # p /\ (status' => Serving'))]_vars

\* ------------------------------------------------- claims: server, PickPeer
\* the peer addresses on the server's ring
OnRing == {pr[2] : pr \in srvMap.hashMap}

\* PickPeer has returned to p
Picked(p) == spc[p] = "idle" /\ sarg[p] \in PickKeys

\* C22: in every server state reachable by any sequence of NewServer, Set, Start, Stop
\* and PickPeer (an empty ring before Set, and the state after Stop has released the
\* peer table and clients, included), PickPeer(key) completes without fault and returns
\* either (nil, false) or (c, true) where c is the client that Set created for a peer
\* address on the ring.
C22_PickPeerTotal ==
    /\ srvFault # "nil pointer dereference in PickPeer"
    /\ \A p \in SrvCallers :
           Picked(p) =>
               \/ spick[p] = NoPick
               \/ /\ spick[p].ok /\ ~spick[p].isNil
                  /\ spick[p].client \in srvCli \cap OnRing

==============================================================================
